---- MODULE Spec2Model ----
(***************************************************************************)
(* Library sync engine of yhsrv (services/yhdl): sync state store,         *)
(* failure log, bounded-concurrency artist checks and release downloads.   *)
(*                                                                         *)
(* The specifications share the variables:                                 *)
(*   Spec / FairSpec  one call of syncLibrary (sync.ts) over a library     *)
(*   RunsSpec         successive calls of syncLibrary                      *)
(*   BatchSpec        one call over more artists than the concurrency limit*)
(*   SpecState        the operations of the sync state store (state.ts)    *)
(*   SpecLog          sequences of writeFailureLog calls (logger.ts)       *)
(*   SpecDownload     one Downloader.downloadAlbum call (downloader.ts)    *)
(*   SpecGw           api_call of the gateway client (gw.ts)               *)
(*   SpecMedia        one get_track_url call (deezer.ts)                   *)
(*   SpecTabs         one get_artist_discography_tabs call (gw.ts)         *)
(*   SpecResolver     the folder resolver over a music root                *)
(*   SpecScan         one scanLibrary call (scanner.ts)                    *)
(*   SpecStream       the decrypter and depadder stages of streamTrack     *)
(*   PairSpec         one call over two artists that both have a release   *)
(*   SharedSpec       one call over two artists that share a compilation   *)
(*   SpecNormalize    normalizeArtistName applied to a name (scanner.ts)   *)
(***************************************************************************)
EXTENDS Integers, Sequences, FiniteSets, TLC

VARIABLES
    \* ---- process and environment ----
    clock,          \* Date.now(), in milliseconds since the model's epoch
    stateCache,     \* state.ts: module variable stateCache (None or Some SyncState)
    syncStateTable, \* sync_state table: per catalog id the last_checked instant
    folders,        \* release folders on disk: set of <<artist folder, release id>>
    files,          \* track files on disk: set of <<artist folder, release id, track no>>
    failureLog,     \* content of the failure log file at errorLogPath
    written,        \* every entry ever passed to writeFailureLog, in call order
    \* ---- one syncLibrary call ----
    runNo,          \* number of syncLibrary calls started so far
    maxRuns,        \* number of syncLibrary calls this behaviour may start
    scanned,        \* the artists scanLibrary finds under the music root
    opts,           \* SyncOptions of the current call
    library,        \* libraryArtists of the current call
    mainPc,         \* position of syncLibrary: idle, race, all, returned, threw
    nextItem,       \* processArtistsBatch: index of the next item of the for loop
    executing,      \* processArtistsBatch: the executing array (task numbers)
    promise,        \* processArtistsBatch: the promise of the current iteration
    tasks,          \* per item: the processor invocation (position and locals)
    checkedArtists, skippedArtists, newReleasesCount,
    allDownloadResults, errors,
    result,         \* the SyncResult as it was when syncLibrary returned, or None
    ticks,          \* number of clock advances so far
    \* ---- SpecState: direct use of the state store ----
    st,             \* the caller's SyncState object
    stIsCache,      \* TRUE when st and stateCache are the same object
    savedAt,        \* per path: the object last passed to saveState (its value,
                    \* whether it is the object st, whether it is the cache's)
    lastOp,         \* the last state-store operation, its arguments and its outcome
    opCount,        \* number of state-store operations so far
    \* ---- SpecLog: direct use of the failure log ----
    nWrites,        \* number of writeFailureLog calls of this behaviour
    \* ---- SpecDownload: one Downloader.downloadAlbum call ----
    dlPc,           \* position of downloadAlbum / downloadTrack / streamTrack
    dlBitrate,      \* options.bitrate of the Downloader
    albumTracks,    \* None, or Some(number of tracks get_album_tracks returned)
    trackIdx,       \* number of the current track (i + 1)
    dlResults,      \* downloadAlbum: results
    dt,             \* locals of the current downloadTrack and streamTrack calls
    disk,           \* the download folder: path -> state of the file's content
    preexisting,    \* the paths the folder held before the call
    \* ---- SpecGw: api_call of the gateway client (gw.ts) ----
    gw,             \* the GW object (api_token) and the frames of its api_call calls
    \* ---- SpecMedia: one get_track_url call (deezer.ts) ----
    mediaCall,      \* the account, the arguments, the position and the outcome
    \* ---- SpecTabs: one get_artist_discography_tabs call (gw.ts) ----
    tabsCall,       \* the catalog's answer pages, the loop's locals and the result
    \* ---- SpecResolver: calls of the folder resolver ----
    rootDirs,       \* the directories on disk under the music root
    resolverCall,   \* the arguments and the return values of the resolver calls
    \* ---- SpecScan: one scanLibrary call (scanner.ts) ----
    scanCall,       \* what the walks find, artistMap and the returned list
    \* ---- SpecStream: the decrypter and depadder stages of streamTrack ----
    streamPipe,     \* the source, both generators' locals and what they yielded
    \* ---- SpecNormalize: normalizeArtistName applied to a name ----
    normCall        \* the name, and the keys of the name and of its key

procVars  == <<clock, stateCache, syncStateTable, folders, files, failureLog, written>>
runVars   == <<runNo, maxRuns, scanned, opts, library, mainPc, nextItem, executing, promise,
               tasks, checkedArtists, skippedArtists, newReleasesCount,
               allDownloadResults, errors, result, ticks>>
storeVars == <<st, stIsCache, savedAt, lastOp, opCount>>
logVars   == <<nWrites>>
dlVars    == <<dlPc, dlBitrate, albumTracks, trackIdx, dlResults, dt, disk, preexisting>>
extVars   == <<gw, mediaCall, tabsCall, rootDirs, resolverCall, scanCall, streamPipe,
               normCall>>
vars      == <<procVars, runVars, storeVars, logVars, dlVars, extVars>>

(***************************************************************************)
(* Bounds of the model                                                     *)
(***************************************************************************)
NumArtists   == 2    \* library artists found by a full scan (Spec)
BatchArtists == 4    \* library artists found by a full scan (BatchSpec)
RunsMax      == 2    \* syncLibrary calls in one behaviour (RunsSpec)
MaxTicks     == 2    \* clock advances between calls and operations
MaxOps       == 4    \* state-store operations in SpecState
MaxWrites    == 3    \* writeFailureLog calls in SpecLog
MaxTracks    == 2    \* tracks of the album in SpecDownload

(***************************************************************************)
(* Program constants                                                       *)
(***************************************************************************)
HourMs == 3600000    \* 1000 * 60 * 60
LogCap == 1000       \* existing.slice(-1000)

Min(a, b) == IF a < b THEN a ELSE b
Max(a, b) == IF a > b THEN a ELSE b

(***************************************************************************)
(* The catalog seen through the client: which id a library name resolves   *)
(* to, the discography of an id, the tracks and release date of a release. *)
(***************************************************************************)
ArtistNames == 1..Max(NumArtists, BatchArtists)
ArtistIds   == 1..3
\* search_artist(name).data[0].id: the fourth and later library names
\* resolve to the catalog artist 3 (two spellings of one artist); the
\* names 8 and 9 are two further artists
CatalogId(name) == IF name <= 3 \/ name >= 8 THEN name ELSE 3
ReleaseIds  == 1..2
\* discography.all of a catalog id: artist 2 has no release; the artists 8
\* and 9 both have release 3, a compilation, artist 8 after a release of
\* its own
Discography(id) == CASE id = 1 -> <<1>>
                     [] id = 2 -> <<>>
                     [] id = 8 -> <<4, 3>>
                     [] id = 9 -> <<3>>
                     [] OTHER  -> <<2>>
\* record_type of a release
RecordType(r) == IF r = 3 THEN "compile" ELSE "album"
\* nb_tracks of a release, also the tracks get_album_tracks returns
NbTracks(r) == IF r = 1 THEN 2 ELSE 1
\* release_date of a release; release 2 carries none
ReleaseDate(r) == IF r = 1 THEN <<"2024-01-01">> ELSE <<>>

None    == <<>>
Some(x) == <<x>>
NoName  == 0         \* the empty string, and an absent specificArtist

(***************************************************************************)
(* state.ts                                                                *)
(***************************************************************************)
\* Date.prototype.toISOString and new Date(iso).getTime(): the ISO text
\* carries the instant to the millisecond
ToISO(t)   == [iso |-> t]
FromISO(s) == s.iso

\* the state loadState builds when the cache is empty
DefaultState == [artists |-> <<>>, lastFullSync |-> None, version |-> "1.0.0"]

HasArtist(state, id) == id \in DOMAIN state.artists

\* the object literal of updateArtistCheck: the new fields first, then the
\* spread of the existing record, whose fields replace the new ones
MergedArtist(state, id, name, t) ==
    LET fresh == [name |-> name, lastChecked |-> ToISO(t), deezerId |-> id,
                  lastReleaseDate |-> None]
    IN  IF HasArtist(state, id)
        THEN LET ex == state.artists[id]
             IN  [name            |-> ex.name,
                  lastChecked     |-> ex.lastChecked,
                  deezerId        |-> ex.deezerId,
                  lastReleaseDate |-> IF ex.lastReleaseDate # None
                                      THEN ex.lastReleaseDate
                                      ELSE fresh.lastReleaseDate]
        ELSE fresh

SetArtist(state, id, rec) ==
    [state EXCEPT !.artists =
        [i \in (DOMAIN state.artists) \cup {id} |->
            IF i = id THEN rec ELSE state.artists[i]]]

updateArtistCheck(state, id, name, t) ==
    SetArtist(state, id, MergedArtist(state, id, name, t))

updateArtistLastRelease(state, id, releaseDate, now) ==
    LET base == IF HasArtist(state, id) THEN state.artists[id]
                ELSE [name |-> NoName, lastChecked |-> ToISO(now), deezerId |-> id,
                      lastReleaseDate |-> None]
    IN  SetArtist(state, id, [base EXCEPT !.lastReleaseDate = Some(releaseDate)])

getLastCheck(state, id) ==
    IF HasArtist(state, id) THEN Some(FromISO(state.artists[id].lastChecked))
    ELSE None

\* variant of RecentlyChecked: the comparison admits equality
RecentlyCheckedInclusive(elapsedMs, checkIntervalHours) ==
    elapsedMs <= checkIntervalHours * HourMs

\* hoursSinceCheck < checkIntervalHours, with
\* hoursSinceCheck = (now - lastCheck) / (1000 * 60 * 60)
RecentlyChecked(elapsedMs, checkIntervalHours) ==
    elapsedMs < checkIntervalHours * HourMs

shouldSkipArtist(state, id, checkIntervalHours, now) ==
    LET lastCheck == getLastCheck(state, id)
    IN  IF lastCheck = None THEN FALSE
        ELSE RecentlyChecked(now - lastCheck[1], checkIntervalHours)

\* variant of updateLastFullSync: the timestamp is not stored
updateLastFullSyncDropped(state, now) == state

updateLastFullSync(state, now) == [state EXCEPT !.lastFullSync = Some(ToISO(now))]

\* the fire-and-forget database write of updateArtistCheck: the row of
\* the artist gets last_checked = new Date() and status 'completed'
updateDeezerSyncState(table, id, now) ==
    [i \in (DOMAIN table) \cup {id} |-> IF i = id THEN now ELSE table[i]]

\* loadState ignores its path: the cached object, created on first use
loadState(cache, path) == IF cache # None THEN cache[1] ELSE DefaultState

\* saveState ignores its path: the cache becomes the given object
saveState(path, state) == Some(state)

(***************************************************************************)
(* logger.ts                                                               *)
(***************************************************************************)
\* variant of SliceLast: slice(0, n), which keeps the oldest entries
SliceFirst(s, n) == IF Len(s) <= n THEN s ELSE SubSeq(s, 1, n)

\* Array.prototype.slice(-n)
SliceLast(s, n) == IF Len(s) <= n THEN s ELSE SubSeq(s, Len(s) - n + 1, Len(s))

\* variant of loadFailureLog: the file is never read back
loadFailureLogEmpty(file) == <<>>

\* existsSync, readFileSync and JSON.parse of what writeFileSync stored
loadFailureLog(file) == file

\* { ...entry, timestamp: new Date().toISOString() }
FullEntry(entry, now) ==
    [artist |-> entry.artist, release |-> entry.release, type |-> entry.type,
     timestamp |-> ToISO(now)]

writeFailureLog(file, entry, now) ==
    LET existing == loadFailureLog(file)
    IN  SliceLast(Append(existing, FullEntry(entry, now)), LogCap)


(***************************************************************************)
(* sync.ts: processArtistsBatch                                            *)
(***************************************************************************)
Range(s)  == {s[i] : i \in 1..Len(s)}

IdleTask == [pc |-> "idle", id |-> 0, rels |-> <<>>, rel |-> 0, trk |-> 0, res |-> <<>>]

\* a processor invocation that was started and has not settled
Running(task) == task.pc \in {"search", "disco", "album", "track"}
\* the promise processor(item).then(...) is settled
Settled(task) == task.pc \in {"done", "rejected"}
Unresolved == {t \in DOMAIN tasks : Running(tasks[t])}

\* executing.splice(executing.findIndex((p) => p === promise), 1)
SpliceCurrent(exec, p) ==
    LET idx == CHOOSE i \in 1..Len(exec) : exec[i] = p
    IN  SubSeq(exec, 1, idx - 1) \o SubSeq(exec, idx + 1, Len(exec))

\* The for loop from item number next on, up to its next await: every
\* iteration starts processor(item) and pushes its promise; the loop
\* suspends in Promise.race once executing.length >= concurrency and
\* reaches Promise.all when the items are exhausted.
LoopSegment(exec, next, total, concurrency) ==
    LET remaining == total - next + 1
        k         == Min(remaining, Max(1, concurrency - Len(exec)))
        newExec   == exec \o [j \in 1..k |-> next + j - 1]
    IN  IF remaining <= 0
        THEN [executing |-> exec, nextItem |-> next, promise |-> 0,
              pc |-> "all", started |-> {}]
        ELSE [executing |-> newExec, nextItem |-> next + k,
              promise |-> next + k - 1,
              pc |-> IF Len(newExec) >= concurrency THEN "race" ELSE "all",
              started |-> {next + j - 1 : j \in 1..k}]

\* processor(item) up to its first await: findArtistId has issued the search
StartTasks(tk, started) ==
    [t \in DOMAIN tk |-> IF t \in started THEN [IdleTask EXCEPT !.pc = "search"]
                         ELSE tk[t]]


(***************************************************************************)
(* sync.ts: the processor of syncLibrary, one action per resumption        *)
(***************************************************************************)
\* the SyncState object of the running call: loadState returned the cache
state == stateCache[1]

ErrorEntry(name, kind) == [artist |-> name, kind |-> kind]
LogEntry(name, r, type) == [artist |-> name, release |-> r, type |-> type]
DownloadResult(name, r, i, ok) ==
    [artist |-> name, release |-> r, track |-> i, success |-> ok]

\* the artist folder named "Various Artists"
VariousArtistsDir == 0

\* resolveArtistReleases: targetArtistPath, the artist folder a release
\* goes under (the library names of the model are no compilation names)
TargetArtist(name, r) == IF RecordType(r) = "compile" THEN VariousArtistsDir ELSE name

\* folderPath of a resolved release
ReleaseFolder(name, r) == <<TargetArtist(name, r), r>>

\* resolveArtistReleases + filter(!r.exists): the releases of the
\* discography whose folder is not on disk
NewReleases(name, all, onDisk) ==
    SelectSeq(all, LAMBDA r : ReleaseFolder(name, r) \notin onDisk)

\* variant of CatchesDownloadError: no try/catch around downloadRelease
PropagatesDownloadError == FALSE

\* whether the try/catch around downloadRelease turns a thrown download
\* error into an errors entry (lines 292 and 314)
CatchesDownloadError == TRUE

\* variant of MockResults: one mock result whatever the track count
MockResultsSingle(name, r) == <<DownloadResult(name, r, 1, TRUE)>>

\* downloadRelease in dry-run mode (lines 96-106): Array.from of length
\* nb_tracks, every element with success: true; no call that does I/O
MockResults(name, r) ==
    [i \in 1..NbTracks(r) |-> DownloadResult(name, r, i, TRUE)]

\* the for loop over newReleases in dry-run mode: downloadRelease returns
\* nb_tracks mock results without I/O, then lines 310-313
RECURSIVE DryRunLoop(_, _, _, _, _, _)
DryRunLoop(s, results, name, id, rels, now) ==
    IF rels = <<>> THEN [state |-> s, results |-> results]
    ELSE LET r    == Head(rels)
             mock == MockResults(name, r)
             s1   == IF ReleaseDate(r) # None
                     THEN updateArtistLastRelease(s, id, ReleaseDate(r)[1], now)
                     ELSE s
         IN  DryRunLoop(s1, results \o mock, name, id, Tail(rels), now)

\* the for loop reaching release number k without dry-run: past the last
\* release the processor returns, else downloadRelease creates the folder
\* (createReleaseFolders) and downloadAlbum awaits get_album_tracks
BeginRelease(task, name, k) ==
    IF k > Len(task.rels)
    THEN [task |-> [task EXCEPT !.pc = "done", !.rel = 0, !.trk = 0, !.res = <<>>],
          mkdir |-> {}]
    ELSE [task |-> [task EXCEPT !.pc = "album", !.rel = k, !.trk = 0, !.res = <<>>],
          mkdir |-> {ReleaseFolder(name, task.rels[k])}]

\* lines 297-308: one failure-log entry per failed result of the album
RECURSIVE LogFailures(_, _, _, _, _, _)
LogFailures(log, name, r, res, i, now) ==
    IF i > Len(res) THEN log
    ELSE LogFailures(IF res[i] THEN log
                     ELSE writeFailureLog(log, LogEntry(name, r, "track_download"), now),
                     name, r, res, i + 1, now)

\* variant of SkipsArtist: the full-sync flag is not looked at
SkipsArtistOnFullSync(o, s, id, now) == shouldSkipArtist(s, id, o.checkIntervalHours, now)

\* line 256: !fullSync && shouldSkipArtist(state, artistId, checkIntervalHours)
SkipsArtist(o, s, id, now) ==
    ~o.fullSync /\ shouldSkipArtist(s, id, o.checkIntervalHours, now)

\* findArtistId resolved; lines 243-268
SearchDone(t, found) ==
    LET name == library[t]
        id   == CatalogId(name)
    IN  /\ mainPc \in {"race", "all", "returned"}
        /\ tasks[t].pc = "search"
        /\ IF ~found
           THEN /\ errors' = Append(errors, ErrorEntry(name, "not_found"))
                /\ failureLog' = writeFailureLog(failureLog,
                                     LogEntry(name, 0, "artist_check"), clock)
                /\ written' = Append(written, FullEntry(LogEntry(name, 0, "artist_check"), clock))
                /\ tasks' = [tasks EXCEPT ![t].pc = "done"]
                /\ UNCHANGED skippedArtists
           ELSE IF SkipsArtist(opts, state, id, clock)
           THEN /\ skippedArtists' = skippedArtists + 1
                /\ tasks' = [tasks EXCEPT ![t].pc = "done", ![t].id = id]
                /\ UNCHANGED <<errors, failureLog, written>>
           ELSE /\ tasks' = [tasks EXCEPT ![t].pc = "disco", ![t].id = id]
                /\ UNCHANGED <<errors, failureLog, written, skippedArtists>>
        /\ UNCHANGED <<clock, stateCache, syncStateTable, folders, files, runNo, maxRuns, scanned,
                       opts, library, mainPc, nextItem, executing, promise,
                       checkedArtists, newReleasesCount, allDownloadResults,
                       result, ticks, storeVars, logVars, dlVars, extVars>>

\* variant of StateAfterCheck: the record is written before the error test
StateAfterCheckAlways(s, id, name, t, ok) == updateArtistCheck(s, id, name, t)

\* lines 270-288: updateArtistCheck is reached only past the return of
\* the error branch
StateAfterCheck(s, id, name, t, ok) ==
    IF ok THEN updateArtistCheck(s, id, name, t) ELSE s

\* checkArtistForNewReleases resolved; lines 270-293
DiscoDone(t, ok) ==
    LET name == library[t]
        id   == tasks[t].id
        rels == NewReleases(name, Discography(id), folders)
        s1   == StateAfterCheck(state, id, name, clock, ok)
        dry  == DryRunLoop(s1, <<>>, name, id, rels, clock)
        beg  == BeginRelease([tasks[t] EXCEPT !.rels = rels], name, 1)
    IN  /\ mainPc \in {"race", "all", "returned"}
        /\ tasks[t].pc = "disco"
        /\ IF ~ok
           THEN /\ errors' = Append(errors, ErrorEntry(name, "check"))
                /\ failureLog' = writeFailureLog(failureLog,
                                     LogEntry(name, 0, "artist_check"), clock)
                /\ written' = Append(written, FullEntry(LogEntry(name, 0, "artist_check"), clock))
                /\ tasks' = [tasks EXCEPT ![t].pc = "done"]
                /\ stateCache' = Some(s1)
                /\ UNCHANGED <<syncStateTable, folders, checkedArtists,
                               newReleasesCount, allDownloadResults>>
           ELSE /\ checkedArtists' = checkedArtists + 1
                /\ newReleasesCount' = newReleasesCount + Len(rels)
                /\ syncStateTable' = updateDeezerSyncState(syncStateTable, id, clock)
                /\ IF opts.dryRun
                   THEN /\ stateCache' = Some(dry.state)
                        /\ allDownloadResults' = allDownloadResults \o dry.results
                        /\ tasks' = [tasks EXCEPT ![t].pc = "done", ![t].rels = rels]
                        /\ UNCHANGED folders
                   ELSE /\ stateCache' = Some(s1)
                        /\ tasks' = [tasks EXCEPT ![t] = beg.task]
                        /\ folders' = folders \cup beg.mkdir
                        /\ UNCHANGED allDownloadResults
                /\ UNCHANGED <<errors, failureLog, written>>
        /\ UNCHANGED <<clock, files, runNo, maxRuns, scanned, opts, library, mainPc, nextItem,
                       executing, promise, skippedArtists, result, ticks,
                       storeVars, logVars, dlVars, extVars>>

\* get_album_tracks of downloadAlbum resolved or threw; lines 293, 314-328
AlbumTracksDone(t, ok) ==
    LET name == library[t]
        task == tasks[t]
        r    == task.rels[task.rel]
        beg  == BeginRelease(task, name, task.rel + 1)
    IN  /\ mainPc \in {"race", "all", "returned"}
        /\ task.pc = "album"
        /\ IF ok
           THEN /\ tasks' = [tasks EXCEPT ![t].pc = "track", ![t].trk = 1]
                /\ UNCHANGED <<errors, failureLog, written, folders>>
           ELSE IF CatchesDownloadError
           THEN /\ errors' = Append(errors, ErrorEntry(name, "release"))
                /\ failureLog' = writeFailureLog(failureLog,
                                     LogEntry(name, r, "release_download"), clock)
                /\ written' = Append(written, FullEntry(LogEntry(name, r, "release_download"), clock))
                /\ tasks' = [tasks EXCEPT ![t] = beg.task]
                /\ folders' = folders \cup beg.mkdir
           ELSE /\ tasks' = [tasks EXCEPT ![t].pc = "rejected"]
                /\ UNCHANGED <<errors, failureLog, written, folders>>
        /\ UNCHANGED <<clock, stateCache, syncStateTable, files, runNo, maxRuns, scanned, opts,
                       library, mainPc, nextItem, executing, promise, checkedArtists,
                       skippedArtists, newReleasesCount, allDownloadResults, result,
                       ticks, storeVars, logVars, dlVars, extVars>>

\* variant of PushAndNext: the next track starts, the result is not kept
NextWithoutPush(task, ok) == [task EXCEPT !.trk = @ + 1]

\* downloadAlbum, lines 59-60 and 51: the awaited result of the current
\* track is pushed, then the loop goes to the next track
PushAndNext(task, ok) == [task EXCEPT !.trk = @ + 1, !.res = Append(@, ok)]

\* downloadTrack of the current track resolved (it never throws); after
\* the last track downloadAlbum returns and lines 294-313 run
TrackDone(t, ok) ==
    LET name == library[t]
        task == tasks[t]
        r    == task.rels[task.rel]
        res  == Append(task.res, ok)
        beg  == BeginRelease(task, name, task.rel + 1)
        s1   == IF ReleaseDate(r) # None
                THEN updateArtistLastRelease(state, task.id, ReleaseDate(r)[1], clock)
                ELSE state
    IN  /\ mainPc \in {"race", "all", "returned"}
        /\ task.pc = "track"
        /\ files' = IF ok THEN files \cup {<<TargetArtist(name, r), r, task.trk>>} ELSE files
        /\ IF task.trk < NbTracks(r)
           THEN /\ tasks' = [tasks EXCEPT ![t] = PushAndNext(task, ok)]
                /\ UNCHANGED <<allDownloadResults, failureLog, written, stateCache, folders>>
           ELSE /\ allDownloadResults' = allDownloadResults \o
                       [i \in 1..Len(res) |-> DownloadResult(name, r, i, res[i])]
                /\ failureLog' = LogFailures(failureLog, name, r, res, 1, clock)
                /\ written' = written \o
                       [i \in 1..Len(SelectSeq(res, LAMBDA b : ~b)) |->
                           FullEntry(LogEntry(name, r, "track_download"), clock)]
                /\ stateCache' = Some(s1)
                /\ tasks' = [tasks EXCEPT ![t] = beg.task]
                /\ folders' = folders \cup beg.mkdir
        /\ UNCHANGED <<clock, syncStateTable, runNo, maxRuns, scanned, opts, library, mainPc,
                       nextItem, executing, promise, checkedArtists, skippedArtists,
                       newReleasesCount, errors, result, ticks, storeVars, logVars, dlVars, extVars>>


(***************************************************************************)
(* sync.ts: syncLibrary                                                    *)
(***************************************************************************)
IntervalHours == 1           \* value of options.checkIntervalHours

\* the SyncOptions a call may be given, per specification
RunOptions ==
    [concurrency : {1, 2}, checkIntervalHours : {IntervalHours},
     fullSync : BOOLEAN, dryRun : BOOLEAN, specificArtist : {NoName, 1}]
RunsOptions ==
    [concurrency : {1}, checkIntervalHours : {IntervalHours},
     fullSync : BOOLEAN, dryRun : BOOLEAN, specificArtist : {NoName, 2}]
BatchOptions ==
    [concurrency : {2}, checkIntervalHours : {IntervalHours},
     fullSync : {FALSE}, dryRun : BOOLEAN, specificArtist : {NoName}]

NoOptions == [concurrency |-> 1, checkIntervalHours |-> IntervalHours,
              fullSync |-> FALSE, dryRun |-> FALSE, specificArtist |-> NoName]

Quiet == \A t \in DOMAIN tasks : ~Running(tasks[t])


\* lines 169-235: load the state, log in, find the artists, start the batch
syncLibraryStart(o, loggedIn) ==
    LET lib == IF o.specificArtist # NoName THEN <<o.specificArtist>>
               ELSE scanned
        seg == LoopSegment(<<>>, 1, Len(lib), o.concurrency)
        fresh == [t \in ArtistNames |-> IdleTask]
    IN  /\ mainPc \in {"idle", "returned", "threw"}
        /\ Quiet
        /\ runNo < maxRuns
        /\ runNo' = runNo + 1
        /\ opts' = o
        /\ stateCache' = Some(loadState(stateCache, "statePath"))
        /\ checkedArtists' = 0
        /\ skippedArtists' = 0
        /\ newReleasesCount' = 0
        /\ allDownloadResults' = <<>>
        /\ errors' = <<>>
        /\ result' = None
        /\ IF loggedIn
           THEN /\ library' = lib
                /\ mainPc' = seg.pc
                /\ nextItem' = seg.nextItem
                /\ executing' = seg.executing
                /\ promise' = seg.promise
                /\ tasks' = StartTasks(fresh, seg.started)
           ELSE /\ library' = <<>>
                /\ mainPc' = "threw"
                /\ nextItem' = 1
                /\ executing' = <<>>
                /\ promise' = 0
                /\ tasks' = fresh
        /\ UNCHANGED <<clock, syncStateTable, folders, files, failureLog, written, maxRuns, scanned, ticks,
                       storeVars, logVars, dlVars, extVars>>

\* await Promise.race(executing) resumes, the splice, and the loop up to
\* its next await
RaceResume ==
    LET spliced == SpliceCurrent(executing, promise)
        seg     == LoopSegment(spliced, nextItem, Len(library), opts.concurrency)
    IN  /\ mainPc = "race"
        /\ \E t \in Range(executing) : Settled(tasks[t])
        /\ IF \E t \in Range(executing) : tasks[t].pc = "rejected"
           THEN /\ mainPc' = "threw"
                /\ UNCHANGED <<nextItem, executing, promise, tasks>>
           ELSE /\ mainPc' = seg.pc
                /\ nextItem' = seg.nextItem
                /\ executing' = seg.executing
                /\ promise' = IF seg.started = {} THEN promise ELSE seg.promise
                /\ tasks' = StartTasks(tasks, seg.started)
        /\ UNCHANGED <<procVars, runNo, maxRuns, scanned, opts, library, checkedArtists,
                       skippedArtists, newReleasesCount, allDownloadResults, errors,
                       result, ticks, storeVars, logVars, dlVars, extVars>>

\* the SyncResult built at lines 341-365
Summary ==
    [totalArtists     |-> Len(library),
     checkedArtists   |-> checkedArtists,
     skippedArtists   |-> skippedArtists,
     newReleases      |-> newReleasesCount,
     downloadedTracks |-> Len(SelectSeq(allDownloadResults, LAMBDA d : d.success)),
     failedTracks     |-> Len(SelectSeq(allDownloadResults, LAMBDA d : ~d.success)),
     errors           |-> errors,
     \* not a field of SyncResult: the tasks unresolved at the return
     pending          |-> Unresolved]

\* await Promise.all(executing) resumes; lines 333-365
AllResume ==
    LET s1 == IF opts.specificArtist = NoName THEN updateLastFullSync(state, clock)
              ELSE state
    IN  /\ mainPc = "all"
        /\ \/ \A t \in Range(executing) : Settled(tasks[t])
           \/ \E t \in Range(executing) : tasks[t].pc = "rejected"
        /\ IF \E t \in Range(executing) : tasks[t].pc = "rejected"
           THEN /\ mainPc' = "threw"
                /\ UNCHANGED <<stateCache, result>>
           ELSE /\ mainPc' = "returned"
                /\ stateCache' = saveState("statePath", s1)
                /\ result' = Some(Summary)
        /\ UNCHANGED <<clock, syncStateTable, folders, files, failureLog, written, runNo, maxRuns, scanned,
                       opts, library, nextItem, executing, promise, tasks,
                       checkedArtists, skippedArtists, newReleasesCount,
                       allDownloadResults, errors, ticks, storeVars, logVars, dlVars, extVars>>

\* the process that called syncLibrary ends (the CLI calls process.exit
\* once syncLibrary has returned): pending tasks and the cache are gone
ProcessExit ==
    /\ mainPc \in {"returned", "threw"}
    /\ mainPc' = "idle"
    /\ stateCache' = None
    /\ tasks' = [t \in DOMAIN tasks |->
                    IF Running(tasks[t]) THEN [tasks[t] EXCEPT !.pc = "killed"]
                    ELSE tasks[t]]
    /\ UNCHANGED <<clock, syncStateTable, folders, files, failureLog, written, runNo, maxRuns, scanned, opts,
                   library, nextItem, executing, promise, checkedArtists,
                   skippedArtists, newReleasesCount, allDownloadResults, errors,
                   result, ticks, storeVars, logVars, dlVars, extVars>>

\* time passes between two calls
TickSteps == {1000, IntervalHours * HourMs - 1000}
Tick(d) ==
    /\ mainPc \in {"idle", "returned", "threw"}
    /\ Quiet
    /\ runNo >= 1
    /\ ticks < MaxTicks
    /\ ticks' = ticks + 1
    /\ clock' = clock + d
    /\ UNCHANGED <<stateCache, syncStateTable, folders, files, failureLog, written, runNo, maxRuns, scanned,
                   opts, library, mainPc, nextItem, executing, promise, tasks,
                   checkedArtists, skippedArtists, newReleasesCount,
                   allDownloadResults, errors, result, storeVars, logVars, dlVars, extVars>>

(***************************************************************************)
(* downloader.ts and decryption.ts: Downloader.downloadAlbum,              *)
(* Downloader.downloadTrack, streamTrack (SpecDownload)                    *)
(***************************************************************************)
\* TrackFormats
FLAC    == 9
MP3_320 == 3
MP3_128 == 1

\* streamTrack: const MAX_RETRIES
MAX_RETRIES == 3

Bitrates == {FLAC, MP3_320, MP3_128}

FORMAT_EXTENSIONS(b) == IF b = FLAC THEN ".flac" ELSE ".mp3"

\* variant of bitratesToTry: the two fallback tiers in the other order
bitratesToTryLowFirst(b) == <<b, MP3_128, MP3_320>>

\* line 86: [this.options.bitrate, TrackFormats.MP3_320, TrackFormats.MP3_128]
bitratesToTry(b) == <<b, MP3_320, MP3_128>>

\* outcomes of one get_track_url call: a URL, null (no media, no license
\* token, request failed), or a thrown WrongLicense, WrongGeolocation or
\* other DeezerError
UrlOutcomes == {"url", "null", "WrongLicense", "WrongGeolocation", "DeezerError"}
UrlErrors   == {"WrongLicense", "WrongGeolocation", "DeezerError"}
NoUrlYet    == "none"

\* variant of CatchesTierError: an error of get_track_url leaves the loop
PropagatesTierError == FALSE

\* the try/catch inside the loop over bitratesToTry (lines 90-99)
CatchesTierError == TRUE

\* variant of CatchesTrackError: no try/catch around the body of downloadTrack
PropagatesTrackError == FALSE

\* the try/catch around the body of downloadTrack (lines 78 and 186)
CatchesTrackError == TRUE

\* the tracks get_track_with_fallback may return: length of MD5_ORIGIN as
\* text, the tiers with a positive FILESIZE_*, whether TRACK_TOKEN is set
FullTracks ==
    {[md5len |-> 0,  sizes |-> {},                token |-> FALSE],
     [md5len |-> 31, sizes |-> {MP3_320},         token |-> TRUE],
     [md5len |-> 32, sizes |-> {},                token |-> TRUE],
     [md5len |-> 32, sizes |-> {MP3_320},         token |-> TRUE],
     [md5len |-> 32, sizes |-> {FLAC, MP3_128},   token |-> FALSE]}
NoTrack == [md5len |-> 0, sizes |-> {}, token |-> FALSE]

\* variant of LegacyUsable: any non-empty MD5_ORIGIN is accepted
LegacyUsableAnyLength(ft) == ft.md5len > 0

\* line 106: md5 && md5.length >= 32 && md5 !== "0"
LegacyUsable(ft) == ft.md5len >= 32

\* lines 110-129: the first tier with a positive file size, else MP3_128
RECURSIVE LegacyTier(_, _, _)
LegacyTier(ft, order, k) ==
    IF k > Len(order) THEN MP3_128
    ELSE IF order[k] \in ft.sizes THEN order[k]
    ELSE LegacyTier(ft, order, k + 1)

\* lines 133-139: the diagnostic of a track without URL
NoUrlError(ft) ==
    [kind  |-> "No URL",
     md5   |-> IF ft.md5len = 0 THEN "missing"
               ELSE IF ft.md5len >= 32 THEN "valid" ELSE "len",
     token |-> IF ft.token THEN "yes" ELSE "no"]

\* the errors streamTrackInternal throws, by cause: the inactivity timers
\* destroy the request (premature close), got's own timeouts, the abort of
\* the 2-minute ceiling, a connection reset, an HTTP error, and the two
\* errors built at lines 190-195
StreamErrors ==
    [timeout  |-> [name |-> "Error", words |-> {}, code |-> "ERR_STREAM_PREMATURE_CLOSE"],
     request  |-> [name |-> "TimeoutError", words |-> {"Timeout"}, code |-> "ETIMEDOUT"],
     abort    |-> [name |-> "AbortError", words |-> {"aborted"}, code |-> "ERR_ABORTED"],
     reset    |-> [name |-> "Error", words |-> {}, code |-> "ECONNRESET"],
     http     |-> [name |-> "HTTPError", words |-> {}, code |-> "ERR_NON_2XX_3XX_RESPONSE"],
     empty    |-> [name |-> "Error", words |-> {}, code |-> ""],
     canceled |-> [name |-> "Error", words |-> {}, code |-> ""]]
\* the Downloader passes no isCancelled to streamTrack (line 161), so its
\* transfers end in every way but the cancel
StreamFailures == (DOMAIN StreamErrors) \ {"canceled"}
StreamOutcomes == StreamFailures \cup {"ok"}

\* lines 38-43
isRetryable(err) ==
    \/ err.name = "AbortError"
    \/ err.words \cap {"aborted", "timeout", "Timeout"} # {}
    \/ err.code \in {"ESOCKETTIMEDOUT", "ERR_STREAM_PREMATURE_CLOSE", "ETIMEDOUT",
                     "ECONNRESET", "ENOTFOUND"}

RECURSIVE Pow2(_)
Pow2(n) == IF n = 0 THEN 1 ELSE 2 * Pow2(n - 1)

\* line 46: Math.min(1000 * Math.pow(2, retryCount), 5000)
RetryDelay(n) == Min(1000 * Pow2(n), 5000)

\* variant of unlinkSync: the partial file stays
unlinkSyncKept(d, path) == d

\* line 185: fs.unlinkSync(writepath) when the file exists
unlinkSync(d, path) == [q \in (DOMAIN d) \ {path} |-> d[q]]

\* variant of existsSync: the destination is never found
existsSyncNever(d, path) == FALSE

\* fs.existsSync
existsSync(d, path) == path \in DOMAIN d

\* fs.createWriteStream, writes of the pipeline, NodeID3.write
writeFile(d, path, content) ==
    [q \in (DOMAIN d) \cup {path} |-> IF q = path THEN content ELSE d[q]]

\* lines 144-148: the destination of track i at the obtained tier
FilePath(i, ab) == [track |-> i, ext |-> FORMAT_EXTENSIONS(ab)]
CoverFile == [track |-> 0, ext |-> ".jpg"]

\* the locals of downloadTrack before its first await
NewTrack(b) ==
    [fullTrack |-> NoTrack, tier |-> 0, lastUrl |-> NoUrlYet, downloadURL |-> None,
     actualBitrate |-> b, filePath |-> None, existed |-> FALSE,
     retryCount |-> 0, streamError |-> None, io |-> <<>>]

DlIdle ==
    /\ dlPc = "idle" /\ dlBitrate = FLAC /\ albumTracks = None /\ trackIdx = 0
    /\ dlResults = <<>> /\ dt = NewTrack(FLAC) /\ disk = <<>> /\ preexisting = {}

\* the variables of the specifications named in active are set by their
\* own initial predicate; the others rest
ExtIdle(active) ==
    /\ "gw" \in active \/ gw = None
    /\ "mediaCall" \in active \/ mediaCall = None
    /\ "tabsCall" \in active \/ tabsCall = None
    /\ "resolver" \in active \/ (rootDirs = None /\ resolverCall = None)
    /\ "scanCall" \in active \/ scanCall = None
    /\ "streamPipe" \in active \/ streamPipe = None
    /\ "normCall" \in active \/ normCall = None

StoreIdle == /\ st = DefaultState /\ stIsCache = FALSE /\ savedAt = <<>>
             /\ lastOp = [op |-> "none"] /\ opCount = 0
LogIdle   == nWrites = 0

InitWith(lib, runs) ==
    /\ clock = 0
    /\ stateCache = None
    /\ syncStateTable = <<>>
    /\ folders = {}
    /\ files = {}
    /\ failureLog = <<>>
    /\ written = <<>>
    /\ runNo = 0
    /\ maxRuns = runs
    /\ scanned = lib
    /\ opts = NoOptions
    /\ library = <<>>
    /\ mainPc = "idle"
    /\ nextItem = 1
    /\ executing = <<>>
    /\ promise = 0
    /\ tasks = [t \in ArtistNames |-> IdleTask]
    /\ checkedArtists = 0
    /\ skippedArtists = 0
    /\ newReleasesCount = 0
    /\ allDownloadResults = <<>>
    /\ errors = <<>>
    /\ result = None
    /\ ticks = 0
    /\ StoreIdle
    /\ LogIdle
    /\ DlIdle

\* the steps of a call after its start
CallStep ==
    \/ RaceResume
    \/ AllResume
    \/ \E t \in ArtistNames, found \in BOOLEAN : SearchDone(t, found)
    \/ \E t \in ArtistNames, ok \in BOOLEAN : DiscoDone(t, ok)
    \/ \E t \in ArtistNames, ok \in BOOLEAN : AlbumTracksDone(t, ok)
    \/ \E t \in ArtistNames, ok \in BOOLEAN : TrackDone(t, ok)

\* Spec: one call over a library of NumArtists artists, any options
Init == InitWith([i \in 1..NumArtists |-> i], 1) /\ ExtIdle({})
Next ==
    \/ \E o \in RunOptions, loggedIn \in BOOLEAN : syncLibraryStart(o, loggedIn)
    \/ CallStep
    \/ ProcessExit
Spec == Init /\ [][Next]_vars

\* RunsSpec: successive calls, with concurrency 1, over a library of one
\* artist; the process may end and time may pass between the calls
RunsLibrary == <<1>>
RunsInit == InitWith(RunsLibrary, RunsMax) /\ ExtIdle({})
RunsNext ==
    \/ \E o \in RunsOptions, loggedIn \in BOOLEAN : syncLibraryStart(o, loggedIn)
    \/ CallStep
    \/ ProcessExit
    \/ \E d \in TickSteps : Tick(d)
RunsSpec == RunsInit /\ [][RunsNext]_vars

\* BatchSpec: one call over a library larger than the concurrency limit
BatchInit == InitWith([i \in 1..BatchArtists |-> i], 1) /\ ExtIdle({})
BatchNext ==
    \/ \E o \in BatchOptions, loggedIn \in BOOLEAN : syncLibraryStart(o, loggedIn)
    \/ CallStep
    \/ ProcessExit
BatchSpec == BatchInit /\ [][BatchNext]_vars

(***************************************************************************)
(* SpecState: the state store used directly, as state.test.ts and other    *)
(* callers of state.ts do                                                  *)
(***************************************************************************)
Paths == {"p1", "p2"}
StoreNames == {1, 2}
StoreHours == {0, 1, 2}
StoreTickSteps == {1000, HourMs - 1000, HourMs}

runIdle == UNCHANGED <<syncStateTable, folders, files, failureLog, written, runVars,
                       logVars, dlVars, extVars>>

\* the caller builds a SyncState literal: empty, or holding artist 1
NewState(withArtist) ==
    /\ opCount < MaxOps
    /\ opCount' = opCount + 1
    /\ st' = IF withArtist
             THEN [DefaultState EXCEPT !.artists =
                      [i \in {1} |-> [name |-> 1, lastChecked |-> ToISO(clock),
                                      deezerId |-> 1, lastReleaseDate |-> None]]]
             ELSE DefaultState
    /\ stIsCache' = FALSE
    /\ savedAt' = [p \in DOMAIN savedAt |-> [savedAt[p] EXCEPT !.isSt = FALSE]]
    /\ lastOp' = [op |-> "new"]
    /\ UNCHANGED <<clock, stateCache>>
    /\ runIdle

\* const state = loadState(path)
LoadStateOp(path) ==
    LET loaded == loadState(stateCache, path)
    IN  /\ opCount < MaxOps
        /\ opCount' = opCount + 1
        /\ stateCache' = Some(loaded)
        /\ st' = loaded
        /\ stIsCache' = TRUE
        /\ savedAt' = [p \in DOMAIN savedAt |->
                          [savedAt[p] EXCEPT !.isSt = savedAt[p].isCache
                                                      /\ stateCache # None]]
        /\ lastOp' = [op |-> "loadState", path |-> path]
        /\ UNCHANGED clock
        /\ runIdle

\* saveState(path, state)
SaveStateOp(path) ==
    /\ opCount < MaxOps
    /\ opCount' = opCount + 1
    /\ stateCache' = saveState(path, st)
    /\ stIsCache' = TRUE
    /\ savedAt' = [p \in (DOMAIN savedAt) \cup {path} |->
                      IF p = path THEN [val |-> st, isSt |-> TRUE, isCache |-> TRUE]
                      ELSE [savedAt[p] EXCEPT !.isCache = savedAt[p].isSt]]
    /\ lastOp' = [op |-> "saveState", path |-> path]
    /\ UNCHANGED <<clock, st>>
    /\ runIdle

\* updateArtistCheck(state, 1, name): the timestamp defaults to new Date()
UpdateArtistCheckOp(name) ==
    LET updated == updateArtistCheck(st, 1, name, clock)
    IN  /\ opCount < MaxOps
        /\ opCount' = opCount + 1
        /\ st' = updated
        /\ stateCache' = IF stIsCache THEN Some(updated) ELSE stateCache
        /\ savedAt' = [p \in DOMAIN savedAt |->
                          IF savedAt[p].isSt THEN [savedAt[p] EXCEPT !.val = updated]
                          ELSE savedAt[p]]
        /\ lastOp' = [op |-> "updateArtistCheck", name |-> name, t |-> clock,
                      existed |-> HasArtist(st, 1)]
        /\ UNCHANGED <<clock, stIsCache>>
        /\ runIdle

\* shouldSkipArtist(state, 1, hours)
ShouldSkipOp(hours) ==
    /\ opCount < MaxOps
    /\ opCount' = opCount + 1
    /\ lastOp' = [op |-> "shouldSkipArtist", hours |-> hours, now |-> clock,
                  skip |-> shouldSkipArtist(st, 1, hours, clock)]
    /\ UNCHANGED <<clock, stateCache, st, stIsCache, savedAt>>
    /\ runIdle

\* time passes between two operations
StoreTick(d) ==
    /\ ticks < MaxTicks
    /\ ticks' = ticks + 1
    /\ clock' = clock + d
    /\ UNCHANGED <<stateCache, syncStateTable, folders, files, failureLog, written,
                   runNo, maxRuns, scanned, opts, library, mainPc, nextItem,
                   executing, promise, tasks, checkedArtists, skippedArtists,
                   newReleasesCount, allDownloadResults, errors, result,
                   storeVars, logVars, dlVars, extVars>>

StateInit == InitWith(<<>>, 0) /\ ExtIdle({})
StateNext ==
    \/ \E withArtist \in BOOLEAN : NewState(withArtist)
    \/ \E path \in Paths : LoadStateOp(path)
    \/ \E path \in Paths : SaveStateOp(path)
    \/ \E name \in StoreNames : UpdateArtistCheckOp(name)
    \/ \E hours \in StoreHours : ShouldSkipOp(hours)
    \/ \E d \in StoreTickSteps : StoreTick(d)
SpecState == StateInit /\ [][StateNext]_vars

(***************************************************************************)
(* SpecLog: successive writeFailureLog calls on one log path, starting     *)
(* from an empty log or from a log that earlier calls have nearly filled   *)
(***************************************************************************)
LogArtists == {1, 2}
LogTypes   == {"artist_check", "release_download", "track_download"}

\* the log after n earlier calls, one per millisecond
EarlierLog(n) == [i \in 1..n |-> FullEntry(LogEntry(1, 0, "artist_check"), i)]

WriteLogOp(entry) ==
    /\ nWrites < MaxWrites
    /\ nWrites' = nWrites + 1
    /\ failureLog' = writeFailureLog(failureLog, entry, clock)
    /\ written' = Append(written, FullEntry(entry, clock))
    /\ clock' = clock + 1
    /\ UNCHANGED <<stateCache, syncStateTable, folders, files, runVars, storeVars, dlVars, extVars>>

LogInit ==
    \E n \in {0, LogCap - 2, LogCap - 1} :
        /\ clock = n + 1
        /\ stateCache = None
        /\ syncStateTable = <<>>
        /\ folders = {}
        /\ files = {}
        /\ failureLog = EarlierLog(n)
        /\ written = EarlierLog(n)
        /\ runNo = 0
        /\ maxRuns = 0
        /\ scanned = <<>>
        /\ opts = NoOptions
        /\ library = <<>>
        /\ mainPc = "idle"
        /\ nextItem = 1
        /\ executing = <<>>
        /\ promise = 0
        /\ tasks = [t \in ArtistNames |-> IdleTask]
        /\ checkedArtists = 0
        /\ skippedArtists = 0
        /\ newReleasesCount = 0
        /\ allDownloadResults = <<>>
        /\ errors = <<>>
        /\ result = None
        /\ ticks = 0
        /\ StoreIdle
        /\ LogIdle
        /\ DlIdle
        /\ ExtIdle({})
LogNext ==
    \E a \in LogArtists, ty \in LogTypes : WriteLogOp(LogEntry(a, 0, ty))
SpecLog == LogInit /\ [][LogNext]_vars

Success(i, path) == [success |-> TRUE, track |-> i, filePath |-> Some(path), error |-> None]
Failure(i, err)  == [success |-> FALSE, track |-> i, filePath |-> None, error |-> Some(err)]
IoOp(op, ms) == [op |-> op, ms |-> ms]

\* downloadTrack returns res: downloadAlbum pushes it (line 60), then
\* pauses before the next track (line 68) or returns the results (line 72)
FinishTrack(res, dt1, disk1) ==
    /\ dlResults' = Append(dlResults, res)
    /\ dlPc' = IF trackIdx < albumTracks[1] THEN "pause" ELSE "done"
    /\ dt' = dt1
    /\ disk' = disk1

\* an error thrown inside downloadTrack: the catch at line 186 turns it
\* into a failed result
ThrowInTrack(err, dt1, disk1) ==
    IF CatchesTrackError
    THEN FinishTrack(Failure(trackIdx, err), dt1, disk1)
    ELSE /\ dlPc' = "threw"
         /\ dt' = dt1
         /\ disk' = disk1
         /\ UNCHANGED dlResults

\* lines 143-161 once downloadURL is set: the destination, the early
\* return when it exists, else streamTrack opens the destination for
\* writing and awaits the transfer
AfterUrl(dt1) ==
    LET path == FilePath(trackIdx, dt1.actualBitrate)
        dt2  == [dt1 EXCEPT !.filePath = Some(path)]
    IN  IF existsSync(disk, path)
        THEN FinishTrack(Success(trackIdx, path), [dt2 EXCEPT !.existed = TRUE], disk)
        ELSE /\ dlPc' = "stream"
             /\ dt' = [dt2 EXCEPT !.io = Append(@, IoOp("stream", 0))]
             /\ disk' = writeFile(disk, path, "partial")
             /\ UNCHANGED dlResults

\* lines 102-141: no modern URL; the legacy URL when MD5_ORIGIN allows it,
\* else the failed result with the diagnostic
LegacyOrNoUrl(dt1) ==
    LET ft == dt1.fullTrack
        lt == LegacyTier(ft, bitratesToTry(dlBitrate), 1)
    IN  IF LegacyUsable(ft)
        THEN AfterUrl([dt1 EXCEPT !.downloadURL = Some([method |-> "legacy", bitrate |-> lt]),
                                  !.actualBitrate = lt])
        ELSE FinishTrack(Failure(trackIdx, NoUrlError(ft)), dt1, disk)

\* lines 163-185 once the file is streamed: tagTrack is awaited for .mp3
TagOrFinish(dt1, disk1) ==
    LET path == dt1.filePath[1]
    IN  IF path.ext = ".mp3"
        THEN /\ dlPc' = "tag"
             /\ dt' = [dt1 EXCEPT !.io = Append(@, IoOp("tag", 0))]
             /\ disk' = disk1
             /\ UNCHANGED dlResults
        ELSE FinishTrack(Success(trackIdx, path), dt1, disk1)

dlFrame == UNCHANGED <<procVars, runVars, storeVars, logVars, dlBitrate, preexisting, extVars>>

\* downloadAlbum is called: it awaits get_album_tracks (line 48)
DownloadAlbumCall ==
    /\ dlPc = "idle"
    /\ dlPc' = "tracks"
    /\ UNCHANGED <<albumTracks, trackIdx, dlResults, dt, disk>>
    /\ dlFrame

\* get_album_tracks settled (lines 48-53, 76-80)
GetAlbumTracksDone(ok, n) ==
    /\ dlPc = "tracks"
    /\ IF ~ok
       THEN /\ dlPc' = "threw"
            /\ UNCHANGED <<albumTracks, trackIdx>>
       ELSE /\ albumTracks' = Some(n)
            /\ trackIdx' = IF n = 0 THEN 0 ELSE 1
            /\ dlPc' = IF n = 0 THEN "done" ELSE "info"
    /\ UNCHANGED <<dlResults, dt, disk>>
    /\ dlFrame

\* get_track_with_fallback settled (lines 80-92)
TrackInfoDone(ok, ft) ==
    /\ dlPc = "info"
    /\ IF ok
       THEN /\ dlPc' = "url"
            /\ dt' = [dt EXCEPT !.fullTrack = ft, !.tier = 1]
            /\ UNCHANGED <<dlResults, disk>>
       ELSE ThrowInTrack([kind |-> "track info"], dt, disk)
    /\ UNCHANGED <<albumTracks, trackIdx>>
    /\ dlFrame

\* get_track_url of the current tier settled (lines 89-161)
TrackUrlDone(out) ==
    LET order == bitratesToTry(dlBitrate)
        k     == dt.tier
        dt1   == [dt EXCEPT !.lastUrl = out]
    IN  /\ dlPc = "url"
        /\ IF out = "url"
           THEN AfterUrl([dt1 EXCEPT
                            !.downloadURL = Some([method |-> "modern", bitrate |-> order[k]]),
                            !.actualBitrate = order[k]])
           ELSE IF out \in UrlErrors /\ ~CatchesTierError
           THEN ThrowInTrack([kind |-> out], dt1, disk)
           ELSE IF k < Len(order)
           THEN /\ dlPc' = "url"
                /\ dt' = [dt1 EXCEPT !.tier = k + 1]
                /\ UNCHANGED <<dlResults, disk>>
           ELSE LegacyOrNoUrl(dt1)
        /\ UNCHANGED <<albumTracks, trackIdx>>
        /\ dlFrame

\* the pipeline of streamTrackInternal settled (decryption.ts 176-201),
\* then streamTrack's catch (36-50) or lines 163-178 of downloadTrack
StreamDone(outcome) ==
    LET path == dt.filePath[1]
    IN  /\ dlPc = "stream"
        /\ IF outcome = "ok"
           THEN LET disk1 == writeFile(disk, path, "streamed")
                    dt1   == [dt EXCEPT !.streamError = None]
                IN  IF ~existsSync(disk1, CoverFile)
                    THEN /\ dlPc' = "cover"
                         /\ dt' = [dt1 EXCEPT !.io = Append(@, IoOp("cover", 0))]
                         /\ disk' = disk1
                         /\ UNCHANGED dlResults
                    ELSE TagOrFinish(dt1, disk1)
           ELSE LET disk1 == unlinkSync(disk, path)
                    dt1   == [dt EXCEPT !.streamError = Some(outcome)]
                IN  IF isRetryable(StreamErrors[outcome]) /\ dt.retryCount < MAX_RETRIES
                    THEN /\ dlPc' = "delay"
                         /\ dt' = [dt1 EXCEPT
                                     !.io = Append(@, IoOp("delay", RetryDelay(dt.retryCount)))]
                         /\ disk' = disk1
                         /\ UNCHANGED dlResults
                    ELSE ThrowInTrack([kind |-> "stream"], dt1, disk1)
        /\ UNCHANGED <<albumTracks, trackIdx>>
        /\ dlFrame

\* the retry delay elapsed: streamTrack calls itself with retryCount + 1
\* (line 48), which opens the destination again
DelayDone ==
    /\ dlPc = "delay"
    /\ dlPc' = "stream"
    /\ dt' = [dt EXCEPT !.retryCount = @ + 1, !.io = Append(@, IoOp("stream", 0))]
    /\ disk' = writeFile(disk, dt.filePath[1], "partial")
    /\ UNCHANGED <<albumTracks, trackIdx, dlResults>>
    /\ dlFrame

\* downloadCover settled (it returns false instead of throwing)
CoverDone(ok) ==
    /\ dlPc = "cover"
    /\ TagOrFinish(dt, IF ok THEN writeFile(disk, CoverFile, "cover") ELSE disk)
    /\ UNCHANGED <<albumTracks, trackIdx>>
    /\ dlFrame

\* tagTrack settled
TagDone(ok) ==
    LET path == dt.filePath[1]
    IN  /\ dlPc = "tag"
        /\ IF ok
           THEN FinishTrack(Success(trackIdx, path), dt, writeFile(disk, path, "tagged"))
           ELSE ThrowInTrack([kind |-> "tag"], dt, disk)
        /\ UNCHANGED <<albumTracks, trackIdx>>
        /\ dlFrame

\* the pause between two tracks elapsed (line 68): the next downloadTrack
PauseDone ==
    /\ dlPc = "pause"
    /\ dlPc' = "info"
    /\ trackIdx' = trackIdx + 1
    /\ dt' = NewTrack(dlBitrate)
    /\ UNCHANGED <<albumTracks, dlResults, disk>>
    /\ dlFrame

\* files the download folder may hold before the call
PreDisks ==
    {{}, {FilePath(1, MP3_128), FilePath(2, FLAC), CoverFile}}

DlInit ==
    \E b \in Bitrates, pre \in PreDisks :
        /\ clock = 0
        /\ stateCache = None
        /\ syncStateTable = <<>>
        /\ folders = {}
        /\ files = {}
        /\ failureLog = <<>>
        /\ written = <<>>
        /\ runNo = 0
        /\ maxRuns = 0
        /\ scanned = <<>>
        /\ opts = NoOptions
        /\ library = <<>>
        /\ mainPc = "idle"
        /\ nextItem = 1
        /\ executing = <<>>
        /\ promise = 0
        /\ tasks = [t \in ArtistNames |-> IdleTask]
        /\ checkedArtists = 0
        /\ skippedArtists = 0
        /\ newReleasesCount = 0
        /\ allDownloadResults = <<>>
        /\ errors = <<>>
        /\ result = None
        /\ ticks = 0
        /\ StoreIdle
        /\ LogIdle
        /\ dlPc = "idle"
        /\ dlBitrate = b
        /\ albumTracks = None
        /\ trackIdx = 0
        /\ dlResults = <<>>
        /\ dt = NewTrack(b)
        /\ disk = [q \in pre |-> "old"]
        /\ preexisting = pre
        /\ ExtIdle({})
DlNext ==
    \/ DownloadAlbumCall
    \/ \E ok \in BOOLEAN, n \in 0..MaxTracks : GetAlbumTracksDone(ok, n)
    \/ \E ok \in BOOLEAN, ft \in FullTracks : TrackInfoDone(ok, ft)
    \/ \E out \in UrlOutcomes : TrackUrlDone(out)
    \/ \E outcome \in StreamOutcomes : StreamDone(outcome)
    \/ DelayDone
    \/ \E ok \in BOOLEAN : CoverDone(ok)
    \/ \E ok \in BOOLEAN : TagDone(ok)
    \/ PauseDone
SpecDownload == DlInit /\ [][DlNext]_vars

(***************************************************************************)
(* Fairness: the event loop runs every continuation that is ready, and     *)
(* every network call of a task settles (with a result or an error).       *)
(***************************************************************************)
TaskStep(t) ==
    \/ \E found \in BOOLEAN : SearchDone(t, found)
    \/ \E ok \in BOOLEAN : DiscoDone(t, ok)
    \/ \E ok \in BOOLEAN : AlbumTracksDone(t, ok)
    \/ \E ok \in BOOLEAN : TrackDone(t, ok)

Fairness ==
    /\ WF_vars(RaceResume)
    /\ WF_vars(AllResume)
    /\ \A t \in ArtistNames : WF_vars(TaskStep(t))

FairSpec == Spec /\ Fairness

InCall == mainPc \in {"race", "all"}

(***************************************************************************)
(* Properties                                                              *)
(***************************************************************************)

\* C1: while syncLibrary runs with concurrency limit N, at most N started
\* processor invocations are unresolved.
ConcurrencyBound ==
    InCall => Cardinality(Unresolved) <= opts.concurrency

\* C2: once login has succeeded, every call of syncLibrary returns a
\* SyncResult, whatever the outcomes of the artists' lookups, discography
\* fetches, album fetches and track downloads.
SyncEventuallyReturns ==
    InCall ~> (mainPc = "returned" /\ result # None)

\* C2 witness: a call has returned although every artist of the library failed
AllArtistsFailedReturned ==
    /\ mainPc = "returned"
    /\ result # None
    /\ Len(library) = NumArtists
    /\ result[1].checkedArtists = 0
    /\ result[1].skippedArtists = 0
    /\ Len(result[1].errors) = NumArtists

\* the discography fetch of the artist of task t has failed
CheckFailed(t) == ErrorEntry(library[t], "check") \in Range(errors)

\* C3: when syncLibrary has returned and the discography fetch of an artist
\* A failed, the returned errors name A and every other artist of the run
\* has been dealt with (no task of another artist is still unresolved).
FailureIsolation ==
    result # None =>
        \A t \in 1..Len(library) :
            CheckFailed(t) =>
                /\ ErrorEntry(library[t], "check") \in Range(result[1].errors)
                /\ \A u \in 1..Len(library) : u # t => u \notin result[1].pending

\* C6: an artist that a call checked successfully at instant t is skipped
\* by every later call without fullSync that runs before t + interval: no
\* such call goes on to fetch its discography.  The sync_state table holds
\* the instant of the last successful check.
DurableSkip ==
    [][\A t \in ArtistNames :
          (tasks[t].pc = "search" /\ tasks'[t].pc = "disco" /\ ~opts.fullSync)
              => LET id == CatalogId(library[t])
                 IN  ~(/\ id \in DOMAIN syncStateTable
                       /\ clock - syncStateTable[id] < opts.checkIntervalHours * HourMs)
      ]_vars

\* the download results of one release of one library artist
ResultsOf(name, r) ==
    SelectSeq(allDownloadResults, LAMBDA d : d.artist = name /\ d.release = r)

\* C8: when a call that downloads has returned, a release all of whose
\* tracks failed has no folder on disk.
WhollyFailedFolderRemoved ==
    (mainPc = "returned" /\ ~opts.dryRun /\ Quiet) =>
        \A name \in ArtistNames, r \in ReleaseIds :
            (/\ ResultsOf(name, r) # <<>>
             /\ \A i \in 1..Len(ResultsOf(name, r)) : ~ResultsOf(name, r)[i].success)
                => <<name, r>> \notin folders

\* C10: every entry passed to writeFailureLog by any task is in the log
\* file, in the order of the calls, up to the cap.
NoLostLogEntry ==
    LET n == Len(written)
        m == Len(failureLog)
    IN  /\ m = Min(n, LogCap)
        /\ \A i \in 1..n : i > n - LogCap => failureLog[i - (n - m)] = written[i]

\* C10 witness: two tasks in flight together have both written to the log
ConcurrentWriters ==
    /\ opts.concurrency = 2
    /\ Len(library) = NumArtists
    /\ \E i, j \in 1..Len(failureLog) :
          i < j /\ failureLog[i].artist # failureLog[j].artist


\* C4: after updateArtistCheck(state, id, name, t) the record of id has
\* lastChecked = t in ISO form and name = name, whether or not a record
\* of id existed before.
UpdateArtistCheckSetsRecord ==
    lastOp.op = "updateArtistCheck" =>
        /\ HasArtist(st, 1)
        /\ st.artists[1].lastChecked = ToISO(lastOp.t)
        /\ st.artists[1].name = lastOp.name

\* C5: shouldSkipArtist(state, id, H) is true exactly when id has a
\* last-checked instant and now - lastChecked < H hours: never checked is
\* not skipped, exactly H hours ago is not skipped, H hours minus one
\* second ago is skipped.
SkipExactlyWhenRecent ==
    lastOp.op = "shouldSkipArtist" =>
        LET H       == lastOp.hours
            known   == HasArtist(st, 1)
            elapsed == lastOp.now - FromISO(st.artists[1].lastChecked)
        IN  /\ ~known => ~lastOp.skip
            /\ known => (lastOp.skip <=> elapsed < H * HourMs)
            /\ (known /\ elapsed = H * HourMs) => ~lastOp.skip
            /\ (known /\ H > 0 /\ elapsed = H * HourMs - 1000) => lastOp.skip

\* C5 witnesses: the two sides of the boundary
SkipAtBoundary ==
    /\ lastOp.op = "shouldSkipArtist"
    /\ lastOp.hours = 1
    /\ HasArtist(st, 1)
    /\ lastOp.now - FromISO(st.artists[1].lastChecked) = HourMs
    /\ ~lastOp.skip

\* C7: loadState(p) returns the state last passed to saveState(p, s), and
\* the default state when nothing was saved at p.
LoadReturnsSavedAtPath ==
    lastOp.op = "loadState" =>
        st = IF lastOp.path \in DOMAIN savedAt THEN savedAt[lastOp.path].val
             ELSE DefaultState

\* C9: the log holds the most recent min(n, 1000) entries written, in
\* write order, and never more than 1000.
LogKeepsMostRecent ==
    LET n == Len(written)
        k == Min(n, LogCap)
    IN  /\ Len(failureLog) <= LogCap
        /\ Len(failureLog) = k
        /\ \A i \in 1..k : failureLog[i] = written[n - k + i]

\* C9 witness: more entries were written than the cap, the oldest are gone
LogOverflowed ==
    /\ nWrites > 0
    /\ Len(written) > LogCap
    /\ Len(failureLog) = LogCap

\* C11: in dry-run mode downloadRelease returns, for every new release,
\* exactly as many results as the release reports tracks, all successful,
\* and creates no folder, fetches no album tracks and downloads no track.
DryRunSynthesizes ==
    (runNo = 1 /\ opts.dryRun) =>
        /\ folders = {}
        /\ files = {}
        /\ \A t \in 1..Len(library) :
              /\ tasks[t].pc \notin {"album", "track"}
              /\ \A k \in 1..Len(tasks[t].rels) :
                    LET res == ResultsOf(library[t], tasks[t].rels[k])
                    IN  /\ Len(res) = NbTracks(tasks[t].rels[k])
                        /\ \A i \in 1..Len(res) : res[i].success

\* C11 witness: a dry run has returned the mock results of a two-track release
DryRunTwoTracks ==
    /\ opts.dryRun
    /\ mainPc = "returned"
    /\ \E t \in 1..Len(library) :
          /\ tasks[t].rels # <<>>
          /\ NbTracks(tasks[t].rels[1]) = 2
          /\ Len(ResultsOf(library[t], tasks[t].rels[1])) = 2

\* C12: an artist's lastReleaseDate is set only from a release whose
\* download had a successful track.
LastReleaseOnlyOnSuccess ==
    stateCache # None =>
        \A id \in DOMAIN state.artists :
            state.artists[id].lastReleaseDate # None =>
                \E i \in 1..Len(allDownloadResults) :
                    /\ allDownloadResults[i].success
                    /\ CatalogId(allDownloadResults[i].artist) = id
                    /\ ReleaseDate(allDownloadResults[i].release) # None

\* C13: a call that returns sets lastFullSync to the current instant
\* exactly when it has no single-artist filter; a call restricted to one
\* artist leaves lastFullSync as it was, and no other step of a call
\* changes it.
LastFullSyncOnlyOnFullRun ==
    [][(stateCache # None /\ stateCache' # None) =>
          IF mainPc = "all" /\ mainPc' = "returned" /\ opts.specificArtist = NoName
          THEN stateCache'[1].lastFullSync = Some(ToISO(clock))
          ELSE stateCache'[1].lastFullSync = stateCache[1].lastFullSync
      ]_vars

\* C13 witness: a single-artist call has returned after an earlier full
\* run of the same process, and lastFullSync is still the earlier instant
SingleArtistRunKeptFullSync ==
    /\ runNo = 2
    /\ mainPc = "returned"
    /\ opts.specificArtist # NoName
    /\ stateCache # None
    /\ state.lastFullSync # None
    /\ FromISO(state.lastFullSync[1]) < clock

\* C14: when the discography fetch of an artist succeeds with 0 releases,
\* the artist is counted in checkedArtists, nothing is added to errors or
\* to the failure log, and its lastChecked becomes the instant of the check.
ZeroReleasesIsSuccess ==
    [][\A t \in 1..Len(library) :
          (/\ tasks[t].pc = "disco"
           /\ tasks'[t].pc = "done"
           /\ Discography(tasks[t].id) = <<>>
           /\ ErrorEntry(library[t], "check") \notin Range(errors'))
              => /\ checkedArtists' = checkedArtists + 1
                 /\ errors' = errors
                 /\ failureLog' = failureLog
                 /\ HasArtist(stateCache'[1], tasks[t].id)
                 /\ stateCache'[1].artists[tasks[t].id].lastChecked = ToISO(clock)
      ]_vars

\* the tracks for which downloadTrack is running or has returned
LastResult == dlResults[Len(dlResults)]
TrackReturned == dlPc \in {"pause", "done"} /\ dlResults # <<>>

UrlResolutionOrder ==
    LET expected == <<dlBitrate, MP3_320, MP3_128>>
        ft       == dt.fullTrack
        sized    == {k \in 1..3 : expected[k] \in ft.sizes}
    IN  /\ dt.downloadURL # None =>
              LET u == dt.downloadURL[1]
              IN  /\ u.method = "modern" =>
                        dt.lastUrl = "url" /\ u.bitrate = expected[dt.tier]
                  /\ u.method = "legacy" =>
                        /\ dt.tier = 3
                        /\ dt.lastUrl # "url"
                        /\ ft.md5len >= 32
                        /\ u.bitrate = IF sized = {} THEN MP3_128
                                       ELSE expected[CHOOSE k \in sized :
                                                        \A j \in sized : k <= j]
                  /\ dt.filePath # None =>
                        dt.filePath[1].ext = IF u.bitrate = FLAC THEN ".flac" ELSE ".mp3"
        /\ (TrackReturned /\ dt.downloadURL = None /\ dt.tier > 0) =>
              dt.tier = 3 /\ dt.lastUrl # "url" /\ ft.md5len < 32

\* C16 witness: FLAC was requested and the URL is a legacy one at 320
LegacyUrlAtSecondTier ==
    /\ dlBitrate = FLAC
    /\ dt.downloadURL = Some([method |-> "legacy", bitrate |-> MP3_320])
    /\ dt.filePath # None

\* C17: an error of get_track_url at one tier makes downloadTrack try the
\* next tier; when the tiers are used up and no legacy URL can be derived,
\* downloadTrack returns a failed result whose diagnostic names the state
\* of MD5_ORIGIN and of the token, and does not throw.
TierErrorTriesNextTier ==
    [][dlPc = "url" =>
          /\ (dt'.lastUrl \in UrlErrors /\ dt.tier < 3) =>
                /\ dlPc' = "url"
                /\ dt'.tier = dt.tier + 1
                /\ dlResults' = dlResults
          /\ (dlPc' # "url" /\ dt'.downloadURL = None) =>
                /\ dlPc' \in {"pause", "done"}
                /\ Len(dlResults') = Len(dlResults) + 1
                /\ ~dlResults'[Len(dlResults')].success
                /\ dlResults'[Len(dlResults')].error =
                      Some([kind  |-> "No URL",
                            md5   |-> IF dt.fullTrack.md5len = 0 THEN "missing" ELSE "len",
                            token |-> IF dt.fullTrack.token THEN "yes" ELSE "no"])
      ]_vars

\* C17 witness: the last tier ended in an error and the track has no URL
NoUrlAfterTierErrors ==
    /\ TrackReturned
    /\ dt.tier = 3
    /\ dt.lastUrl \in UrlErrors
    /\ dt.downloadURL = None
    /\ ~LastResult.success

\* C18: when the destination of a track exists, downloadTrack returns a
\* successful result with that path, performs no transfer, no cover
\* download and no tagging, and leaves the file as it was.
ExistingFileNotRefetched ==
    (TrackReturned /\ dt.filePath # None /\ dt.filePath[1] \in preexisting) =>
        /\ LastResult.success
        /\ LastResult.filePath = dt.filePath
        /\ dt.io = <<>>
        /\ dt.filePath[1] \in DOMAIN disk
        /\ disk[dt.filePath[1]] = "old"

\* C18 witness: the second track of the album was already in the folder
SecondTrackExisted ==
    /\ dlPc = "done"
    /\ Len(dlResults) = 2
    /\ dt.filePath # None
    /\ dt.filePath[1] \in preexisting

\* the transfers and the waits of the current streamTrack call
Attempts == SelectSeq(dt.io, LAMBDA o : o.op = "stream")
Waits    == SelectSeq(dt.io, LAMBDA o : o.op = "delay")

\* C19: streamTrack makes at most 3 transfer attempts for a track, waits
\* 1 s, 2 s, 4 s (never more than 5 s) before the re-attempts, and does
\* not re-attempt after a cancel or an empty response.
AtMostThreeAttempts ==
    /\ Len(Attempts) <= 3
    /\ \A k \in 1..Len(Waits) : Waits[k].ms = 1000 * Pow2(k - 1) /\ Waits[k].ms <= 5000
    /\ dt.streamError = Some("empty") => dlPc # "delay"
    /\ ~isRetryable(StreamErrors["canceled"])

\* C20: when a transfer of streamTrack has failed, before a re-attempt
\* and after the last attempt, no file is at the destination.
FailedStreamLeavesNoFile ==
    (dt.streamError # None /\ dlPc \in {"delay", "pause", "done"}) =>
        dt.filePath[1] \notin DOMAIN disk

\* C20 witness: the track failed by the abort of the ceiling after all retries
AbortedAfterRetries ==
    /\ dlPc = "done"
    /\ dt.streamError = Some("abort")
    /\ dt.retryCount = MAX_RETRIES
    /\ ~LastResult.success

(***************************************************************************)
(* SpecGw: GW.api_call (gw.ts).  gw.api_token is the field of the GW       *)
(* object; gw.stack holds the api_call invocations that wait, innermost    *)
(* last: the call of the client and, above it, the deezer.getUserData      *)
(* calls that _get_token makes.  A call that ends by `return               *)
(* this.api_call(method, args, params)` goes on in the same frame.         *)
(***************************************************************************)
MaxPosts == 5     \* POST requests to the gateway in one behaviour

GwMethods == {"song.getData", "deezer.getUserData"}
\* what a POST can end in: results without error, the invalid-token or
\* invalid-CSRF payload, an error payload with or without FALLBACK, a
\* network error of the listed codes, any other exception
PostOutcomes == {"ok", "token", "fallback", "error", "net", "fail"}

\* a new invocation of api_call: args as the caller gave them
NewFrame(method) ==
    [method |-> method, pc |-> "post", refreshes |-> 0, merged |-> FALSE, faults |-> 0]

\* lines 32-54 of an invocation in frame f: up to its first await
EnterApiCall(g, f) ==
    IF g.api_token = None /\ f.method # "deezer.getUserData"
        THEN [g EXCEPT !.stack = g.stack \o <<[f EXCEPT !.pc = "token"],
                                   NewFrame("deezer.getUserData")>>]
        ELSE [g EXCEPT !.stack = Append(g.stack, [f EXCEPT !.pc = "post"])]

\* the innermost invocation returns its results: the client's call is over,
\* or _get_token hands checkForm to the invocation that awaits it
RECURSIVE ReturnResults(_)
ReturnResults(g) ==
    LET n == Len(g.stack)
        popped == [g EXCEPT !.stack = SubSeq(g.stack, 1, n - 1)]
    IN  IF n = 1 THEN [popped EXCEPT !.ret = Some("results")]
        ELSE LET caller == g.stack[n - 1]
                 withToken == [popped EXCEPT !.api_token = Some(g.tokens),
                                             !.stack = SubSeq(g.stack, 1, n - 2)]
             IN  EnterApiCall(withToken, caller)

\* GWAPIError: no await of the chain is inside a try block
ThrowGWAPIError(g) == [g EXCEPT !.stack = <<>>, !.ret = Some("GWAPIError")]

\* variant of OnConnectionFault: the fault ends the call
OnConnectionFaultThrows(g, n) == ThrowGWAPIError(g)

\* lines 58-61: one of the five listed codes; the invocation waits 2 s
OnConnectionFault(g, n) == [g EXCEPT !.stack[n].pc = "sleep", !.stack[n].faults = @ + 1]

GwOthers == <<procVars, runVars, storeVars, logVars, dlVars,
              mediaCall, tabsCall, rootDirs, resolverCall, scanCall, streamPipe, normCall>>

ApiCall(method) ==
    /\ gw.stack = <<>>
    /\ gw.posts < MaxPosts
    /\ gw' = EnterApiCall([gw EXCEPT !.ret = None, !.last = None], NewFrame(method))
    /\ UNCHANGED GwOthers

PostDone(outcome) ==
    /\ gw.stack # <<>>
    /\ LET n == Len(gw.stack)
           f == gw.stack[n]
           g == [gw EXCEPT !.posts = @ + 1, !.last = Some(outcome)]
           rest == [g EXCEPT !.stack = SubSeq(g.stack, 1, n - 1)]
       IN  /\ f.pc = "post"
           /\ gw.posts < MaxPosts
           /\ gw' = CASE outcome = "net"  -> OnConnectionFault(g, n)
                      [] outcome = "fail" -> ThrowGWAPIError(g)
                      [] outcome = "token" ->
                            [g EXCEPT !.stack = SubSeq(g.stack, 1, n - 1) \o
                                <<[f EXCEPT !.pc = "refresh", !.refreshes = @ + 1],
                                  NewFrame("deezer.getUserData")>>]
                      [] outcome = "fallback" -> EnterApiCall(rest, [f EXCEPT !.merged = TRUE])
                      [] outcome = "error" -> ThrowGWAPIError(g)
                      [] outcome = "ok" ->
                            IF f.method = "deezer.getUserData"
                                THEN LET t == [g EXCEPT !.tokens = @ + 1]
                                     IN  ReturnResults(
                                            IF g.api_token = None
                                                THEN [t EXCEPT !.api_token = Some(t.tokens)]
                                                ELSE t)
                                ELSE ReturnResults(g)
    /\ UNCHANGED GwOthers

\* the 2 s wait after a network error is over (lines 59-60)
SleepDone ==
    /\ gw.stack # <<>>
    /\ LET n == Len(gw.stack)
       IN  /\ gw.stack[n].pc = "sleep"
           /\ gw' = EnterApiCall([gw EXCEPT !.stack = SubSeq(gw.stack, 1, n - 1)], gw.stack[n])
    /\ UNCHANGED GwOthers

GwInit ==
    /\ InitWith(<<>>, 0)
    /\ ExtIdle({"gw"})
    /\ \E tok \in {None, Some(0)} :
          gw = [api_token |-> tok, tokens |-> 0, stack |-> <<>>, posts |-> 0, ret |-> None,
                last |-> None]
GwNext ==
    \/ \E method \in GwMethods : ApiCall(method)
    \/ \E outcome \in PostOutcomes : PostDone(outcome)
    \/ SleepDone
SpecGw == GwInit /\ [][GwNext]_vars

\* C21: one api_call refreshes the token at most once: after a refresh a
\* second token error ends the call instead of starting another refresh.
AtMostOneTokenRefresh ==
    \A i \in 1..Len(gw.stack) : gw.stack[i].refreshes <= 1

\* C36: after a connection fault the invocation waits and posts again with
\* the method and arguments it had, however many faults came before, and
\* the call returns results only from a POST that succeeded; any other
\* failure of the POST and an error payload without token error and
\* FALLBACK end the call with GWAPIError at once.
ConnectionFaultRetried ==
    /\ [](/\ (gw.last = Some("net")) =>
                (gw.ret = None /\ gw.stack # <<>>
                 /\ gw.stack[Len(gw.stack)].pc \in {"sleep", "post"})
          /\ (gw.last \in {Some("fail"), Some("error")}) =>
                (gw.stack = <<>> /\ gw.ret = Some("GWAPIError"))
          /\ (gw.ret = Some("results")) => gw.last = Some("ok"))
    /\ [][(gw.stack # <<>> /\ gw.stack[Len(gw.stack)].pc = "sleep") =>
             /\ gw'.stack = [gw.stack EXCEPT ![Len(gw.stack)].pc = "post"]
             /\ gw'.posts = gw.posts
             /\ gw'.api_token = gw.api_token]_vars

\* C36 witness: after the third connection fault in a row the POST, with
\* the arguments a FALLBACK was merged into, is issued once more
ReissuedAfterThreeFaults ==
    /\ gw.last = Some("net")
    /\ Len(gw.stack) = 1
    /\ gw.stack[1] = [method |-> "song.getData", pc |-> "post", refreshes |-> 0,
                      merged |-> TRUE, faults |-> 3]

(***************************************************************************)
(* SpecMedia: Deezer.get_track_url and get_tracks_url (deezer.ts).         *)
(***************************************************************************)
MaxEntries == 2   \* entries of response.data

GEOLOCATION_CODE == 2002
OTHER_CODE       == 2000
MediaFormats == {"FLAC", "MP3_320", "MP3_128"}
\* currentUser: whether license_token is set, can_stream_lossless, can_stream_hq
MediaUsers == [license_token : BOOLEAN, can_stream_lossless : BOOLEAN, can_stream_hq : BOOLEAN]
\* an entry of response.data: errors (absent, or the code of errors[0]) and
\* whether media is present
MediaEntries == [errors : {None, Some(GEOLOCATION_CODE), Some(OTHER_CODE)}, media : BOOLEAN]
MediaResponses == UNION {[1..n -> MediaEntries] : n \in 0..MaxEntries}

MediaNull == [kind |-> "null"]
MediaUrl == [kind |-> "url"]
MediaError(name) == [kind |-> "error", name |-> name]
\* tracks[0] instanceof DeezerError
InstanceOfDeezerError(x) == x.kind = "error" /\ x.name \in {"DeezerError", "WrongGeolocation", "WrongLicense"}

\* lines 137-141: the format asks for a tier the account may not stream
NotLicensed(user, format) ==
    \/ format = "FLAC" /\ ~user.can_stream_lossless
    \/ format = "MP3_320" /\ ~user.can_stream_hq

\* the callback of response.data.forEach: what it pushes for one entry
PushedForKeepingOn(data) ==
    IF data.errors # None
        THEN <<IF data.errors[1] = GEOLOCATION_CODE THEN MediaError("WrongGeolocation")
                                                   ELSE MediaError("DeezerError"),
               MediaNull>>
        ELSE IF data.media THEN <<MediaUrl>> ELSE <<MediaNull>>
PushedFor(data) ==
    IF data.errors # None
        THEN <<IF data.errors[1] = GEOLOCATION_CODE THEN MediaError("WrongGeolocation")
                                                   ELSE MediaError("DeezerError")>>
        ELSE IF data.media THEN <<MediaUrl>> ELSE <<MediaNull>>

\* lines 167-184: result after the forEach over response.data
RECURSIVE TracksUrlResult(_)
TracksUrlResult(response) ==
    IF response = <<>> THEN <<>>
    ELSE TracksUrlResult(SubSeq(response, 1, Len(response) - 1)) \o PushedFor(response[Len(response)])

\* lines 123-128: get_track_url with the array get_tracks_url resolved to
TrackUrlReturn(tracks) ==
    IF Len(tracks) > 0
        THEN IF InstanceOfDeezerError(tracks[1]) THEN [threw |-> Some(tracks[1].name), value |-> None]
                                                 ELSE [threw |-> None, value |-> Some(tracks[1])]
        ELSE [threw |-> None, value |-> Some(MediaNull)]

MediaOthers == <<procVars, runVars, storeVars, logVars, dlVars,
                 gw, tabsCall, rootDirs, resolverCall, scanCall, streamPipe, normCall>>

\* get_track_url is called: get_tracks_url runs up to its request
GetTrackUrlCall ==
    /\ mediaCall.pc = "start"
    /\ mediaCall' =
         IF ~mediaCall.user.license_token
             THEN [mediaCall EXCEPT !.pc = "done", !.tracks = Some(<<>>), !.ret = TrackUrlReturn(<<>>)]
         ELSE IF NotLicensed(mediaCall.user, mediaCall.format)
             THEN [mediaCall EXCEPT !.pc = "done",
                                    !.ret = [threw |-> Some("WrongLicense"), value |-> None]]
         ELSE [mediaCall EXCEPT !.pc = "post"]
    /\ UNCHANGED MediaOthers

\* the request to media.deezer.com settles: it failed, or it gave response.data
MediaPostDone(ok, response) ==
    /\ mediaCall.pc = "post"
    /\ ~ok => response = <<>>
    /\ LET tracks == IF ok THEN TracksUrlResult(response) ELSE <<>>
       IN  mediaCall' = [mediaCall EXCEPT !.pc = "done", !.response = IF ok THEN Some(response) ELSE None,
                                          !.tracks = Some(tracks), !.ret = TrackUrlReturn(tracks)]
    /\ UNCHANGED MediaOthers

MediaInit ==
    /\ InitWith(<<>>, 0)
    /\ ExtIdle({"mediaCall"})
    /\ \E user \in MediaUsers, format \in MediaFormats :
          mediaCall = [user |-> user, format |-> format, pc |-> "start",
                       response |-> None, tracks |-> None, ret |-> None]
MediaNext ==
    \/ GetTrackUrlCall
    \/ \E ok \in BOOLEAN, response \in MediaResponses : MediaPostDone(ok, response)
SpecMedia == MediaInit /\ [][MediaNext]_vars

MaxListed == 3    \* entries of the artist's discography in the catalog
PageLimit == 2    \* options.limit of the call

\* ReleaseType[parseInt(album.TYPE)] of map_artist_album
RecordTypeOf(albId) == IF albId = 1 THEN "album" ELSE "single"
\* a listed release: ALB_ID, whether ART_ID is the artist asked for,
\* ROLE_ID (0 main, 5 featured), ARTISTS_ALBUMS_IS_OFFICIAL
ListedReleases ==
    [ALB_ID : {1, 2}, own : {TRUE}, ROLE_ID : {0, 5}, official : BOOLEAN]
    \cup [ALB_ID : {1, 2}, own : {FALSE}, ROLE_ID : {0, 1, 5}, official : {TRUE}]
    \cup [ALB_ID : {1, 2}, own : {FALSE}, ROLE_ID : {0}, official : {FALSE}]
Catalogs == UNION {[1..n -> ListedReleases] : n \in 0..MaxListed}

\* album.getDiscography with start and nb: a page and the total
DiscographyPage(catalog, start, nb) ==
    [data |-> SubSeq(catalog, start + 1, Min(start + nb, Len(catalog))), total |-> Len(catalog)]

\* ids.includes(albumId)
IdsIncludesNever(ids, albumId) == FALSE
IdsIncludes(ids, albumId) == albumId \in ids

\* line 199: the release counts among the artist's own official releases
IsPrimary(release) ==
    (release.own \/ (~release.own /\ release.ROLE_ID = 0)) /\ release.official

EmptyTabs == [k \in {"all", "featured", "more"} |-> <<>>]
PushTab(tabs, key, obj) ==
    [k \in DOMAIN tabs \cup {key} |->
        IF k = key THEN (IF k \in DOMAIN tabs THEN Append(tabs[k], obj) ELSE <<obj>>)
                   ELSE tabs[k]]

\* lines 188-215: the loop over releases from the k-th on
RECURSIVE TabsLoop(_, _, _, _)
TabsLoop(releases, k, ids, tabs) ==
    IF k > Len(releases) THEN tabs
    ELSE LET release == releases[k]
         IN  IF IdsIncludes(ids, release.ALB_ID) THEN TabsLoop(releases, k + 1, ids, tabs)
             ELSE TabsLoop(releases, k + 1, ids \cup {release.ALB_ID},
                    IF IsPrimary(release)
                        THEN PushTab(PushTab(tabs, RecordTypeOf(release.ALB_ID), release), "all", release)
                    ELSE IF release.ROLE_ID = 5 THEN PushTab(tabs, "featured", release)
                    ELSE IF release.ROLE_ID = 0
                        THEN PushTab(PushTab(tabs, "more", release), "all", release)
                    ELSE tabs)

TabsOthers == <<procVars, runVars, storeVars, logVars, dlVars,
                gw, mediaCall, rootDirs, resolverCall, scanCall, streamPipe, normCall>>

\* lines 174-183: the call starts and asks for the first page
GetTabsCall ==
    /\ tabsCall.pc = "start"
    /\ tabsCall' = [tabsCall EXCEPT !.pc = "page", !.requests = <<0>>]
    /\ UNCHANGED TabsOthers

\* the page asked for arrives, or its api_call throws
TabsPageDone(ok) ==
    /\ tabsCall.pc = "page"
    /\ LET response == DiscographyPage(tabsCall.catalog, tabsCall.index, PageLimit)
           releases == tabsCall.releases \o response.data
           index == tabsCall.index + PageLimit
       IN  tabsCall' =
             IF ~ok THEN [tabsCall EXCEPT !.pc = "threw"]
             ELSE IF index < response.total
                 THEN [tabsCall EXCEPT !.releases = releases, !.index = index,
                                       !.requests = Append(@, index)]
             ELSE [tabsCall EXCEPT !.releases = releases, !.index = index, !.pc = "done",
                                   !.result = Some(TabsLoop(releases, 1, {}, EmptyTabs))]
    /\ UNCHANGED TabsOthers

TabsInit ==
    /\ InitWith(<<>>, 0)
    /\ ExtIdle({"tabsCall"})
    /\ \E catalog \in Catalogs :
          tabsCall = [catalog |-> catalog, pc |-> "start", index |-> 0, releases |-> <<>>,
                      requests |-> <<>>, result |-> None]
TabsNext ==
    \/ GetTabsCall
    \/ \E ok \in BOOLEAN : TabsPageDone(ok)
SpecTabs == TabsInit /\ [][TabsNext]_vars

\* the album ids of a list of the result, in order
TabIds(tab) == [i \in 1..Len(tab) |-> tab[i].ALB_ID]
NoRepeat(seq) == \A i, j \in 1..Len(seq) : seq[i] = seq[j] => i = j
\* the releases the loop keeps: the first listing of each album id
FirstListings(releases) ==
    {releases[i] : i \in {j \in 1..Len(releases) :
                            \A h \in 1..(j - 1) : releases[h].ALB_ID # releases[j].ALB_ID}}

\* C23: the call asks for the pages at offsets 0, limit, 2*limit, ... and
\* stops at the first offset that is not below the reported total; in the
\* result no album id occurs twice in all, in featured or in more; all holds
\* exactly the primary releases (official, and the artist's own or with the
\* artist in the main role) and the releases of more; no featured release
\* is in all.
TabsPartition ==
    tabsCall.pc = "done" =>
        LET tabs == tabsCall.result[1]
            total == Len(tabsCall.catalog)
        IN  /\ \A i \in 1..Len(tabsCall.requests) : tabsCall.requests[i] = (i - 1) * PageLimit
            /\ \A i \in 2..Len(tabsCall.requests) : tabsCall.requests[i] < total
            /\ tabsCall.index >= total
            /\ tabsCall.releases = tabsCall.catalog
            /\ \A k \in {"all", "featured", "more"} : NoRepeat(TabIds(tabs[k]))
            /\ Range(tabs.all) =
                  {r \in FirstListings(tabsCall.releases) : IsPrimary(r)} \cup Range(tabs.more)
            /\ Range(tabs.featured) \cap Range(tabs.all) = {}

\* C23 witness: two pages were fetched, the second lists again an album of
\* the first, and the result lists a featured release and one release in all
TwoPagesWithRepeat ==
    /\ tabsCall.pc = "done"
    /\ Len(tabsCall.requests) = 2
    /\ tabsCall.releases[3].ALB_ID = tabsCall.releases[1].ALB_ID
    /\ tabsCall.result[1].featured # <<>>
    /\ Len(tabsCall.result[1].all) = 1

(***************************************************************************)
(* Strings of the folder resolver and the scanner.  A string is the        *)
(* sequence of its tokens: a word (letters, in their case), one blank, or  *)
(* one punctuation character.  No word of the model is part of another,    *)
(* so one string contains another exactly when its token sequence does.    *)
(***************************************************************************)
Blank == " "
\* characters outside \w and \s; the first four are invalid in folder names
Punctuation == {"/", ":", "?", "*", "-", ".", "!"}
InvalidChars == {"/", ":", "?", "*"}
LowerCase == [Abbey |-> "abbey", Road |-> "road", Revisited |-> "revisited",
              Album |-> "album", EP |-> "ep", Single |-> "single",
              Pink |-> "pink", Floyd |-> "floyd", Various |-> "various",
              Artists |-> "artists", VA |-> "va", OST |-> "ost", Artist |-> "artist"]
toLowerCase(str) ==
    [i \in DOMAIN str |-> IF str[i] \in DOMAIN LowerCase THEN LowerCase[str[i]] ELSE str[i]]

\* the tokens of str at the positions of keep, in order
Pick(str, keep) ==
    LET ix == SelectSeq([i \in DOMAIN str |-> i], LAMBDA i : i \in keep)
    IN  [k \in DOMAIN ix |-> str[ix[k]]]
trim(str) ==
    LET ink == {i \in DOMAIN str : str[i] # Blank}
    IN  Pick(str, {i \in DOMAIN str : \E a, b \in ink : a <= i /\ i <= b})
\* replace(/[^\w\s]/g, "")
RemoveNonWord(str) == SelectSeq(str, LAMBDA c : c \notin Punctuation)
\* replace(/\s+/g, " ")
CollapseBlanks(str) ==
    Pick(str, {i \in DOMAIN str : ~(str[i] = Blank /\ i > 1 /\ str[i - 1] = Blank)})
\* replace(/\.+$/g, "")
RemoveTrailingDots(str) ==
    Pick(str, {i \in DOMAIN str : \E j \in i..Len(str) : str[j] # "."})
\* String.prototype.includes
includes(str, part) ==
    \E i \in 0..(Len(str) - Len(part)) : SubSeq(str, i + 1, i + Len(part)) = part

normalizeForMatching(str) == trim(CollapseBlanks(RemoveNonWord(toLowerCase(str))))
\* slice(0, 200) cuts nothing off the names of the model
sanitizeFolderName(name) ==
    trim(RemoveTrailingDots(CollapseBlanks(
        [i \in DOMAIN name |-> IF name[i] \in InvalidChars THEN "_" ELSE name[i]])))

(***************************************************************************)
(* SpecResolver: the folder resolver (folder-resolver.ts) over a music     *)
(* root.  rootDirs.exists tells whether the root is on disk; rootDirs.dirs *)
(* holds the directories under it, each as the path of its names from the  *)
(* root.  resolverCall.calls lists the resolveArtistReleases calls made.   *)
(***************************************************************************)
MaxTrackCount == 8    \* largest nb_tracks of an album
MaxResolves   == 3    \* resolveArtistReleases calls in one behaviour

AbbeyRoad == <<"Abbey", Blank, "Road">>
TypeSuffix(releaseType) == <<Blank, "-", Blank, releaseType>>
Titles == {AbbeyRoad, <<"Abbey", "/", "Road", ".">>}
\* record_type: missing, empty, or a value map_artist_album gives
RecordTypes == {None, Some(""), Some("single"), Some("album"), Some("compile"),
                Some("ep"), Some("bundle"), Some("unknown")}
Albums == [title : Titles, record_type : RecordTypes,
           nb_tracks : {None} \cup {Some(n) : n \in 0..MaxTrackCount}]
AnAlbum(recordType) == [title |-> AbbeyRoad, record_type |-> Some(recordType), nb_tracks |-> Some(MaxTrackCount)]
Discographies ==
    {<<a>> : a \in Albums}
    \cup {<<a, b>> : a \in {AnAlbum("album"), AnAlbum("compile")}, b \in {AnAlbum("ep"), AnAlbum("compile")}}
VariousArtistsName == <<"Various", Blank, "Artists">>
ResolverArtists ==
    {<<"Pink", Blank, "Floyd">>, <<"pink", Blank, "floyd">>, <<"Various", Blank, "Floyd">>,
     VariousArtistsName, <<"various">>, <<Blank, "VA">>, <<"OST">>, <<"soundtrack">>,
     <<"compilation">>}
\* the music root before the first call
RootFixtures ==
    {[exists |-> FALSE, dirs |-> {}],
     [exists |-> TRUE, dirs |-> {}],
     [exists |-> TRUE,
      dirs |-> {<<<<"pink", Blank, "floyd">>>>,
                <<<<"pink", Blank, "floyd">>, AbbeyRoad \o TypeSuffix("Album")>>,
                <<VariousArtistsName>>,
                <<VariousArtistsName, AbbeyRoad \o TypeSuffix("Album")>>}],
     [exists |-> TRUE,
      dirs |-> {<<<<"various", Blank, "artists">>>>,
                <<<<"Pink", Blank, "Floyd">>>>,
                <<<<"Pink", Blank, "Floyd">>, <<"Abbey", "_", "Road">> \o TypeSuffix("EP")>>}]}

\* fs.mkdirSync(rootPath, { recursive: true }) when the root is missing
mkdirRoot(fs) == [fs EXCEPT !.exists = TRUE]
\* the names of the directories readdirSync(rootPath) lists
readdirSync(fs) == {p[1] : p \in {q \in fs.dirs : Len(q) = 1}}

findOrCreateArtistFolder(fs, artistName) ==
    LET sanitizedName == sanitizeFolderName(artistName)
        found == {e \in readdirSync(fs) : toLowerCase(e) = toLowerCase(sanitizedName)}
    IN  IF found # {} THEN <<CHOOSE e \in found : TRUE>> ELSE <<sanitizedName>>

determineReleaseTypeStrict(album) ==
    LET recordType == IF album.record_type = None THEN None
                      ELSE Some(toLowerCase(<<album.record_type[1]>>)[1])
        trackCount == IF album.nb_tracks = None THEN 0 ELSE album.nb_tracks[1]
    IN  IF recordType = Some("ep") THEN "EP"
        ELSE IF recordType = Some("single") THEN "Single"
        ELSE IF recordType = Some("album") THEN "Album"
        ELSE IF trackCount < 2 THEN "Single"
        ELSE IF trackCount < 6 THEN "EP"
        ELSE "Album"
determineReleaseType(album) ==
    LET recordType == IF album.record_type = None THEN None
                      ELSE Some(toLowerCase(<<album.record_type[1]>>)[1])
        trackCount == IF album.nb_tracks = None THEN 0 ELSE album.nb_tracks[1]
    IN  IF recordType = Some("ep") THEN "EP"
        ELSE IF recordType = Some("single") THEN "Single"
        ELSE IF recordType = Some("album") THEN "Album"
        ELSE IF trackCount <= 2 THEN "Single"
        ELSE IF trackCount <= 6 THEN "EP"
        ELSE "Album"

resolveReleaseFolder(artistPath, album) ==
    Append(artistPath, sanitizeFolderName(album.title) \o TypeSuffix(determineReleaseType(album)))

isAlreadyDownloadedArtist(fs, releasePath) == SubSeq(releasePath, 1, 1) \in fs.dirs
isAlreadyDownloaded(fs, releasePath) == releasePath \in fs.dirs

compilationNames ==
    {<<"various", Blank, "artists">>, <<"various">>, <<"va">>, <<"compilation">>,
     <<"soundtrack">>, <<"ost">>}
isVariousArtistsExact(album, artistName) ==
    \/ trim(artistName) \in compilationNames
    \/ album.record_type = Some("compile")
isVariousArtists(album, artistName) ==
    \/ trim(toLowerCase(artistName)) \in compilationNames
    \/ album.record_type = Some("compile")

resolveArtistReleases(fs, artistName, discography) ==
    LET artistPath == findOrCreateArtistFolder(fs, artistName)
    IN  [i \in DOMAIN discography |->
            LET album == discography[i]
                various == isVariousArtists(album, artistName)
                targetArtistPath == IF various THEN findOrCreateArtistFolder(mkdirRoot(fs), VariousArtistsName)
                                               ELSE artistPath
                folderPath == resolveReleaseFolder(targetArtistPath, album)
            IN  [album |-> album,
                 artistName |-> IF various THEN VariousArtistsName ELSE artistName,
                 folderPath |-> folderPath,
                 releaseType |-> determineReleaseType(album),
                 exists |-> isAlreadyDownloaded(mkdirRoot(fs), folderPath)]]

createReleaseFolders(fs, releases) ==
    LET foldersToCreate ==
            UNION {{SubSeq(releases[i].folderPath, 1, 1), releases[i].folderPath} :
                     i \in {j \in DOMAIN releases : ~releases[j].exists}}
    IN  IF foldersToCreate = {} THEN fs
        ELSE [exists |-> TRUE, dirs |-> fs.dirs \cup foldersToCreate]

\* folder.replace(/\s*-\s*(Album|EP|Single)$/i, "").trim()
StripTypeSuffix(folder) ==
    LET n == Len(folder)
        dash == {i \in 1..(n - 1) :
                    /\ folder[i] = "-"
                    /\ toLowerCase(<<folder[n]>>)[1] \in {"album", "ep", "single"}
                    /\ \A j \in (i + 1)..(n - 1) : folder[j] = Blank}
    IN  IF dash = {} THEN trim(folder)
        ELSE trim(SubSeq(folder, 1, (CHOOSE i \in dash : TRUE) - 1))

\* the tests of the three loops of matchReleaseToFolder
ExactMatch(title, folder) == normalizeForMatching(folder) = title
SuffixMatch(title, folder) == normalizeForMatching(StripTypeSuffix(folder)) = title
FuzzyMatch(title, folder) ==
    \/ includes(normalizeForMatching(folder), title)
    \/ includes(title, normalizeForMatching(folder))
\* a loop over existingFolders that returns the first folder passing Test
FirstFolder(existingFolders, title, Test(_, _)) ==
    LET hits == {i \in DOMAIN existingFolders : Test(title, existingFolders[i])}
    IN  IF hits = {} THEN None
        ELSE Some(existingFolders[CHOOSE i \in hits : \A j \in hits : i <= j])

AnyMatch(title, folder) ==
    ExactMatch(title, folder) \/ SuffixMatch(title, folder) \/ FuzzyMatch(title, folder)
matchReleaseToFolderOneLoop(album, existingFolders) ==
    FirstFolder(existingFolders, normalizeForMatching(trim(toLowerCase(album.title))), AnyMatch)
matchReleaseToFolder(album, existingFolders) ==
    LET albumTitleNormalized == normalizeForMatching(trim(toLowerCase(album.title)))
        exact == FirstFolder(existingFolders, albumTitleNormalized, ExactMatch)
        suffix == FirstFolder(existingFolders, albumTitleNormalized, SuffixMatch)
    IN  IF exact # None THEN exact
        ELSE IF suffix # None THEN suffix
        ELSE FirstFolder(existingFolders, albumTitleNormalized, FuzzyMatch)

\* folder names and titles handed to matchReleaseToFolder
MatchFolders ==
    {AbbeyRoad \o TypeSuffix("Album"),
     <<"Abbey", Blank, "Road", Blank, "Revisited">> \o TypeSuffix("Album"),
     AbbeyRoad, <<"abbey", Blank, Blank, "road", "!", Blank, "-", "ep">>,
     <<"Road">> \o TypeSuffix("Single"), <<"Pink", Blank, "Floyd">>}
MatchFolderLists == UNION {[1..n -> MatchFolders] : n \in 0..2}
MatchTitles == {AbbeyRoad, <<Blank, "abbey", Blank, "road", "?">>, <<"Revisited">>, <<"Various">>}

ResolverOthers == <<procVars, runVars, storeVars, logVars, dlVars,
                    gw, mediaCall, tabsCall, scanCall, streamPipe, normCall>>

\* one resolveArtistReleases call
Resolve(artistName, discography) ==
    /\ Len(resolverCall.calls) < MaxResolves
    /\ resolverCall.match = None
    /\ rootDirs' = mkdirRoot(rootDirs)
    /\ resolverCall' = [resolverCall EXCEPT !.calls = Append(@,
            [artistName |-> artistName, discography |-> discography, before |-> rootDirs,
             after |-> rootDirs',
             resolved |-> resolveArtistReleases(rootDirs, artistName, discography)])]
    /\ UNCHANGED ResolverOthers

ResolveCall ==
    /\ resolverCall.calls = <<>>
    /\ \E artistName \in ResolverArtists, discography \in Discographies :
          Resolve(artistName, discography)
\* the caller resolves the same releases again
ResolveAgain ==
    /\ resolverCall.calls # <<>>
    /\ LET last == resolverCall.calls[Len(resolverCall.calls)]
       IN  Resolve(last.artistName, last.discography)
\* the caller creates the folders of the releases it resolved last
CreateReleaseFoldersCall ==
    /\ resolverCall.calls # <<>>
    /\ ~resolverCall.created
    /\ rootDirs' = createReleaseFolders(rootDirs, resolverCall.calls[Len(resolverCall.calls)].resolved)
    /\ resolverCall' = [resolverCall EXCEPT !.created = TRUE]
    /\ UNCHANGED ResolverOthers
MatchCall(title, existingFolders) ==
    /\ resolverCall.calls = <<>>
    /\ resolverCall.match = None
    /\ LET album == [title |-> title, record_type |-> None, nb_tracks |-> None]
       IN  resolverCall' = [resolverCall EXCEPT !.match =
                Some([album |-> album, existingFolders |-> existingFolders,
                      ret |-> matchReleaseToFolder(album, existingFolders)])]
    /\ UNCHANGED <<rootDirs, ResolverOthers>>

ResolverInit ==
    /\ InitWith(<<>>, 0)
    /\ ExtIdle({"resolver"})
    /\ rootDirs \in RootFixtures
    /\ resolverCall = [calls |-> <<>>, created |-> FALSE, match |-> None]
ResolverNext ==
    \/ ResolveCall
    \/ ResolveAgain
    \/ CreateReleaseFoldersCall
    \/ \E title \in MatchTitles, existingFolders \in MatchFolderLists : MatchCall(title, existingFolders)
SpecResolver == ResolverInit /\ [][ResolverNext]_vars

\* every release a resolveArtistReleases call returned, with its call
ResolvedReleases ==
    UNION {{[call |-> resolverCall.calls[c], release |-> resolverCall.calls[c].resolved[i]] :
                i \in DOMAIN resolverCall.calls[c].resolved} : c \in DOMAIN resolverCall.calls}

\* C24: the release type is the record type when that is album, ep or
\* single, whatever the track count; otherwise a release of at most 2
\* tracks is a Single, of 3 to 6 tracks an EP, of 7 or more an Album.
ReleaseTypeByRecordOrCount ==
    \A rr \in ResolvedReleases :
        LET album == rr.release.album
            releaseType == rr.release.releaseType
        IN  /\ album.record_type = Some("album") => releaseType = "Album"
            /\ album.record_type = Some("ep") => releaseType = "EP"
            /\ album.record_type = Some("single") => releaseType = "Single"
            /\ (album.record_type \notin {Some("album"), Some("ep"), Some("single")}
                    /\ album.nb_tracks # None) =>
                  LET n == album.nb_tracks[1]
                  IN  /\ n <= 2 => releaseType = "Single"
                      /\ (3 <= n /\ n <= 6) => releaseType = "EP"
                      /\ n >= 7 => releaseType = "Album"

\* C24 witness: a release without record type at the upper end of the EP
\* range was resolved
TypeBoundariesResolved ==
    \E rr \in ResolvedReleases :
        /\ rr.release.album.record_type = None
        /\ rr.release.album.nb_tracks = Some(6)
        /\ rr.release.releaseType = "EP"

\* C25: a release goes under the root's "Various Artists" folder, with
\* artist name "Various Artists", when the artist name is an alias (up to
\* case and surrounding blanks) or the record type is "compile"; every
\* other release goes under the folder of the artist asked for.
VariousArtistsRouting ==
    \A rr \in ResolvedReleases :
        LET lowerArtist == trim(toLowerCase(rr.call.artistName))
            artistFolder == rr.release.folderPath[1]
        IN  IF lowerArtist \in {<<"various", Blank, "artists">>, <<"various">>, <<"va">>,
                                <<"compilation">>, <<"soundtrack">>, <<"ost">>}
               \/ rr.release.album.record_type = Some("compile")
            THEN /\ rr.release.artistName = VariousArtistsName
                 /\ toLowerCase(artistFolder) = toLowerCase(VariousArtistsName)
            ELSE /\ rr.release.artistName = rr.call.artistName
                 /\ toLowerCase(artistFolder) = lowerArtist

\* C25 witness: one discography of Pink Floyd with an album that stays
\* under the artist's existing folder and a compilation that goes to
\* Various Artists
CompilationRoutedAway ==
    \E rr, ss \in ResolvedReleases :
        /\ rr.call = ss.call
        /\ rr.call.artistName = <<"Pink", Blank, "Floyd">>
        /\ rr.release.album.record_type = Some("album")
        /\ toLowerCase(rr.release.folderPath[1]) = <<"pink", Blank, "floyd">>
        /\ ss.release.album.record_type = Some("compile")
        /\ ss.release.artistName = VariousArtistsName

\* C26: matchReleaseToFolder returns the first folder equal to the title
\* after normalization; failing that the first folder equal to it once its
\* type suffix is stripped; failing that the first folder that contains
\* the title or is contained in it; else null.  "Abbey Road" matches
\* "Abbey Road - Album", matches "Abbey Road Revisited - Album" when that
\* is the only folder, and matches "Abbey Road - Album" when both exist,
\* in either order.
MatchPassOrder ==
    resolverCall.match # None =>
        LET m == resolverCall.match[1]
            title == normalizeForMatching(m.album.title)
            fs == m.existingFolders
            Hits(Test(_, _)) == {i \in DOMAIN fs : Test(title, fs[i])}
            First(hits) == Some(fs[CHOOSE i \in hits : \A j \in hits : i <= j])
            album == AbbeyRoad \o TypeSuffix("Album")
            revisited == <<"Abbey", Blank, "Road", Blank, "Revisited">> \o TypeSuffix("Album")
        IN  /\ m.ret = IF Hits(ExactMatch) # {} THEN First(Hits(ExactMatch))
                       ELSE IF Hits(SuffixMatch) # {} THEN First(Hits(SuffixMatch))
                       ELSE IF Hits(FuzzyMatch) # {} THEN First(Hits(FuzzyMatch))
                       ELSE None
            /\ m.album.title = AbbeyRoad =>
                  /\ fs = <<album>> => m.ret = Some(album)
                  /\ fs = <<revisited>> => m.ret = Some(revisited)
                  /\ fs \in {<<album, revisited>>, <<revisited, album>>} => m.ret = Some(album)

\* C26 witness: the folder that only contains the title comes first, and
\* the folder with the type suffix is returned
SuffixBeatsEarlierFuzzy ==
    /\ resolverCall.match # None
    /\ resolverCall.match[1].album.title = AbbeyRoad
    /\ resolverCall.match[1].existingFolders =
          <<<<"Abbey", Blank, "Road", Blank, "Revisited">> \o TypeSuffix("Album"),
            AbbeyRoad \o TypeSuffix("Album")>>
    /\ resolverCall.match[1].ret = Some(AbbeyRoad \o TypeSuffix("Album"))

\* C27: a resolveArtistReleases call creates no directory under the root;
\* a call repeated with the directories unchanged returns the same
\* releases, paths and existence flags; a release's folder is named
\* "{sanitized title} - {type}" and its flag is true exactly when that
\* folder is on disk.
ResolveIdempotent ==
    /\ \A c \in DOMAIN resolverCall.calls :
          resolverCall.calls[c].after.dirs = resolverCall.calls[c].before.dirs
    /\ \A c \in 2..Len(resolverCall.calls) :
          LET this == resolverCall.calls[c]
              prev == resolverCall.calls[c - 1]
          IN  (this.artistName = prev.artistName /\ this.discography = prev.discography
                  /\ this.before.dirs = prev.before.dirs)
                => this.resolved = prev.resolved
    /\ \A rr \in ResolvedReleases :
          /\ Len(rr.release.folderPath) = 2
          /\ rr.release.folderPath[2] =
                sanitizeFolderName(rr.release.album.title) \o TypeSuffix(rr.release.releaseType)
          /\ rr.release.exists <=> rr.release.folderPath \in rr.call.before.dirs

\* C27 witness: the same release resolved twice with nothing created in
\* between, found on disk both times, its title sanitized
ResolvedTwiceExisting ==
    /\ Len(resolverCall.calls) >= 2
    /\ ~resolverCall.created
    /\ resolverCall.calls[1].resolved[1].exists
    /\ resolverCall.calls[2].resolved[1].exists
    /\ resolverCall.calls[2].resolved[1].folderPath[2] = <<"Abbey", "_", "Road">> \o TypeSuffix("EP")

(***************************************************************************)
(* SpecScan: scanLibrary (scanner.ts).  scanCall.tree lists the            *)
(* directories of the music root in readdir order; each holds at most one  *)
(* audio file, directly (audio) or in an album folder, with the artist     *)
(* names of its tags.                                                      *)
(***************************************************************************)
MaxArtistDirs == 2    \* directories of the music root

\* lower case, trim, then the two replacements
normalizeArtistName(name) == CollapseBlanks(RemoveNonWord(trim(toLowerCase(name))))

\* names in the order of localeCompare
ScanNames == <<<<"!">>, <<"OST">>, <<"Pink", Blank, "Floyd">>, <<"pink", Blank, "floyd", "!">>>>
TagLists == {<<>>, <<ScanNames[2]>>, <<ScanNames[3]>>, <<ScanNames[4]>>, <<ScanNames[3], ScanNames[2]>>}
ArtistDirs == [name : Range(ScanNames), audio : BOOLEAN, tags : TagLists]
ScanTrees ==
    {tree \in UNION {[1..n -> ArtistDirs] : n \in 0..MaxArtistDirs} :
        \A i, j \in DOMAIN tree : tree[i].name = tree[j].name => i = j}

\* the directory of the audio file of an artist directory
FileDir(dir) == IF dir.audio THEN <<dir.name>> ELSE <<dir.name, <<"Album">>>>

\* walkDir over the root: the depth 1 directories with audio files, first
\* of each normalized name
RECURSIVE extractArtistsFromFolders(_, _, _)
extractArtistsFromFolders(tree, k, visited) ==
    IF k > Len(tree) THEN <<>>
    ELSE LET normalized == normalizeArtistName(tree[k].name)
         IN  IF tree[k].audio /\ normalized # <<>> /\ normalized \notin visited
                 THEN <<tree[k].name>> \o extractArtistsFromFolders(tree, k + 1, visited \cup {normalized})
                 ELSE extractArtistsFromFolders(tree, k + 1, visited)

\* the artist names of the tags of every audio file, with the file's directory
RECURSIVE extractArtistsFromMetadataRecursive(_, _)
extractArtistsFromMetadataRecursive(tree, k) ==
    IF k > Len(tree) THEN <<>>
    ELSE [i \in DOMAIN tree[k].tags |-> [artistName |-> tree[k].tags[i], fileDir |-> FileDir(tree[k])]]
         \o extractArtistsFromMetadataRecursive(tree, k + 1)

\* the audio files under a path
countAudioFiles(tree, path) ==
    Cardinality({k \in DOMAIN tree :
        /\ tree[k].audio \/ tree[k].tags # <<>>
        /\ Len(path) <= Len(FileDir(tree[k]))
        /\ SubSeq(FileDir(tree[k]), 1, Len(path)) = path})

\* artistMap as the sequence of its entries in insertion order
MapHas(artistMap, key) == \E i \in DOMAIN artistMap : artistMap[i].key = key
\* lines 147-158: method 1 over the folder artists from the k-th on
RECURSIVE FolderPass(_, _, _)
FolderPass(artistMap, folderArtists, k) ==
    IF k > Len(folderArtists) THEN artistMap
    ELSE LET normalized == normalizeArtistName(folderArtists[k])
         IN  FolderPass(IF MapHas(artistMap, normalized) THEN artistMap
                        ELSE Append(artistMap, [key |-> normalized, name |-> folderArtists[k],
                                                path |-> <<folderArtists[k]>>, source |-> "folder"]),
                        folderArtists, k + 1)

\* lines 175-179: an artist of the tags is in the map already
PreferFolder(existing, fileDir) == existing
PreferMetadata(existing, fileDir) ==
    IF existing.source = "folder" THEN [existing EXCEPT !.source = "metadata", !.path = fileDir]
    ELSE existing

\* lines 164-180: method 2 over the tag artists from the k-th on
RECURSIVE MetadataPass(_, _, _)
MetadataPass(artistMap, metadataArtists, k) ==
    IF k > Len(metadataArtists) THEN artistMap
    ELSE LET normalized == normalizeArtistName(metadataArtists[k].artistName)
             fileDir == metadataArtists[k].fileDir
         IN  MetadataPass(
                IF ~MapHas(artistMap, normalized)
                    THEN Append(artistMap, [key |-> normalized, name |-> metadataArtists[k].artistName,
                                            path |-> fileDir, source |-> "metadata"])
                    ELSE [i \in DOMAIN artistMap |->
                            IF artistMap[i].key = normalized THEN PreferMetadata(artistMap[i], fileDir)
                            ELSE artistMap[i]],
                metadataArtists, k + 1)

\* lines 184-194: the entries with their file counts, sorted by name
ScanResults(tree, artistMap) ==
    LET Rank(name) == CHOOSE r \in DOMAIN ScanNames : ScanNames[r] = name
        counted == [i \in DOMAIN artistMap |->
                      LET fileCount == countAudioFiles(tree, artistMap[i].path)
                      IN  [name |-> artistMap[i].name, path |-> artistMap[i].path,
                           source |-> artistMap[i].source,
                           fileCount |-> IF fileCount > 0 THEN Some(fileCount) ELSE None]]
    IN  SortSeq(counted, LAMBDA a, b : Rank(a.name) < Rank(b.name))

ScanOthers == <<procVars, runVars, storeVars, logVars, dlVars,
                gw, mediaCall, tabsCall, rootDirs, resolverCall, streamPipe, normCall>>

\* scanLibrary is called: method 1 runs, then the walk over the tags starts
\* (or, without includeMetadata, the call returns)
ScanLibraryCall ==
    /\ scanCall.pc = "start"
    /\ LET folderArtists == IF scanCall.includeFolders
                                THEN extractArtistsFromFolders(scanCall.tree, 1, {}) ELSE <<>>
           artistMap == FolderPass(<<>>, folderArtists, 1)
       IN  scanCall' =
             IF scanCall.includeMetadata
                 THEN [scanCall EXCEPT !.pc = "metadata", !.folderArtists = folderArtists,
                                       !.artistMap = artistMap]
                 ELSE [scanCall EXCEPT !.pc = "done", !.folderArtists = folderArtists,
                                       !.artistMap = artistMap,
                                       !.ret = Some(ScanResults(scanCall.tree, artistMap))]
    /\ UNCHANGED ScanOthers

\* the walk over the tags is over: method 2 runs and the call returns
ScanMetadataDone ==
    /\ scanCall.pc = "metadata"
    /\ LET metadataArtists == extractArtistsFromMetadataRecursive(scanCall.tree, 1)
           artistMap == MetadataPass(scanCall.artistMap, metadataArtists, 1)
       IN  scanCall' = [scanCall EXCEPT !.pc = "done", !.metadataArtists = metadataArtists,
                                        !.artistMap = artistMap,
                                        !.ret = Some(ScanResults(scanCall.tree, artistMap))]
    /\ UNCHANGED ScanOthers

ScanInit ==
    /\ InitWith(<<>>, 0)
    /\ ExtIdle({"scanCall"})
    /\ \E tree \in ScanTrees, includeMetadata \in BOOLEAN, includeFolders \in BOOLEAN :
          scanCall = [tree |-> tree, includeMetadata |-> includeMetadata,
                      includeFolders |-> includeFolders, pc |-> "start", folderArtists |-> <<>>,
                      metadataArtists |-> <<>>, artistMap |-> <<>>, ret |-> None]
ScanNext ==
    \/ ScanLibraryCall
    \/ ScanMetadataDone
SpecScan == ScanInit /\ [][ScanNext]_vars

\* the normalized names method 1 and method 2 found
FolderKeys == {normalizeArtistName(scanCall.folderArtists[i]) : i \in DOMAIN scanCall.folderArtists}
MetadataKeys ==
    {normalizeArtistName(scanCall.metadataArtists[i].artistName) : i \in DOMAIN scanCall.metadataArtists}

\* C28: scanLibrary returns at most one artist per normalized name; an
\* artist found from a folder and from tags is marked "metadata"; an artist
\* found from a folder only keeps the path of that folder.
OneArtistPerKey ==
    scanCall.pc = "done" =>
        LET ret == scanCall.ret[1]
        IN  /\ \A i, j \in DOMAIN ret :
                  normalizeArtistName(ret[i].name) = normalizeArtistName(ret[j].name) => i = j
            /\ \A i \in DOMAIN ret :
                  LET key == normalizeArtistName(ret[i].name)
                  IN  /\ (key \in FolderKeys /\ key \in MetadataKeys) => ret[i].source = "metadata"
                      /\ (key \in FolderKeys /\ key \notin MetadataKeys) =>
                            /\ ret[i].source = "folder"
                            /\ ret[i].path = <<ret[i].name>>
            /\ {normalizeArtistName(ret[i].name) : i \in DOMAIN ret} = FolderKeys \cup MetadataKeys

\* C28 witness: two spellings of one artist, one from a folder and one from
\* tags, gave one entry marked "metadata" beside a folder-only artist
FolderAndTagsMerged ==
    /\ scanCall.pc = "done"
    /\ Len(scanCall.ret[1]) = 2
    /\ \E i \in {1, 2} :
          /\ scanCall.ret[1][i].name = <<"pink", Blank, "floyd", "!">>
          /\ scanCall.ret[1][i].source = "metadata"
          /\ <<"Pink", Blank, "Floyd">> \in Range([k \in DOMAIN scanCall.metadataArtists |->
                                                    scanCall.metadataArtists[k].artistName])
    /\ \E i \in {1, 2} : scanCall.ret[1][i].source = "folder"

(***************************************************************************)
(* SpecStream: the decrypter and depadder generators of                    *)
(* streamTrackInternal (decryption.ts) over one response body.  A buffer   *)
(* is the range [lo, hi) of the body's offsets it holds; a chunk yielded   *)
(* by the decrypter also tells the range cbc that went through             *)
(* decryptChunk, if any.  streamPipe.content describes the body after the  *)
(* decrypter: its leading zero bytes, whether bytes 4..8 are "ftyp", and a *)
(* later run of zero bytes.                                                *)
(***************************************************************************)
MaxChunks == 4        \* chunks of the response body

BlockLen == 2048
SuperBlock == 3 * BlockLen
ChunkLens == {1, BlockLen - 1, BlockLen, 2 * BlockLen + 1, SuperBlock, 4 * BlockLen}
NoZeros == <<0, 0>>
StreamContents ==
    {[pad |-> 0, ftyp |-> FALSE, zeros |-> NoZeros],
     [pad |-> 3, ftyp |-> TRUE, zeros |-> NoZeros],
     [pad |-> 5, ftyp |-> FALSE, zeros |-> NoZeros],
     [pad |-> 0, ftyp |-> FALSE, zeros |-> <<BlockLen - 8, SuperBlock + 8>>]}

\* lines 89-92 and 98-105: a super-block (or the rest of the body) with
\* its first 2048 bytes decrypted when it holds that many
DecryptBlockShort(lo, hi) ==
    [lo |-> lo, hi |-> hi, cbc |-> IF hi > lo THEN <<lo, Min(lo + BlockLen, hi)>> ELSE <<>>]
DecryptBlock(lo, hi) ==
    [lo |-> lo, hi |-> hi, cbc |-> IF hi - lo >= BlockLen THEN <<lo, lo + BlockLen>> ELSE <<>>]

\* lines 85-94: the while loop over modifiedStream = [lo, hi): what it yields
RECURSIVE DrainSuperBlocks(_, _)
DrainSuperBlocks(lo, hi) ==
    IF hi - lo >= SuperBlock
        THEN <<DecryptBlock(lo, lo + SuperBlock)>> \o DrainSuperBlocks(lo + SuperBlock, hi)
        ELSE <<>>

\* the zero bytes a chunk begins with
LeadingZeros(content, chunk) ==
    LET end == IF chunk.lo < content.pad THEN Min(content.pad, chunk.hi)
               ELSE IF content.zeros[1] <= chunk.lo /\ chunk.lo < content.zeros[2]
                   THEN Min(content.zeros[2], chunk.hi)
               ELSE chunk.lo
    IN  end - chunk.lo
\* lines 112-118: the chunk without its leading zero bytes, unless it does
\* not begin with one or carries "ftyp" at bytes 4..8
StripZeros(content, chunk) ==
    IF LeadingZeros(content, chunk) > 0
       /\ ~(content.ftyp /\ chunk.lo = 0 /\ chunk.hi >= 8)
        THEN [chunk EXCEPT !.lo = @ + LeadingZeros(content, chunk)]
        ELSE chunk
\* lines 111-121: what the depadder yields for a chunk
depadAnyChunk(content, isStart, chunk) == StripZeros(content, chunk)
depad(content, isStart, chunk) == IF isStart THEN StripZeros(content, chunk) ELSE chunk

\* the decrypter yielded some chunks: the depadder takes them in order
Yield(pipe, yielded) ==
    [pipe EXCEPT !.decrypted = @ \o yielded,
                 !.depadded = @ \o [k \in DOMAIN yielded |->
                                      depad(pipe.content, pipe.isStart /\ k = 1, yielded[k])],
                 !.isStart = @ /\ yielded = <<>>]

StreamOthers == <<procVars, runVars, storeVars, logVars, dlVars,
                  gw, mediaCall, tabsCall, rootDirs, resolverCall, scanCall, normCall>>

\* the source gives a chunk of len bytes (lines 80-95)
StreamChunk(len) ==
    /\ ~streamPipe.ended
    /\ streamPipe.chunks < MaxChunks
    /\ LET total == streamPipe.total + len
           lo == streamPipe.modifiedStream.lo
           yielded == IF streamPipe.isCryptedStream THEN DrainSuperBlocks(lo, total)
                      ELSE <<[lo |-> streamPipe.total, hi |-> total, cbc |-> <<>>]>>
           rest == IF streamPipe.isCryptedStream
                       THEN [lo |-> lo + Len(yielded) * SuperBlock, hi |-> total]
                       ELSE streamPipe.modifiedStream
       IN  streamPipe' = Yield([streamPipe EXCEPT !.total = total, !.chunks = @ + 1,
                                                  !.modifiedStream = rest], yielded)
    /\ UNCHANGED StreamOthers

\* the source is over (lines 97-106)
StreamEnd ==
    /\ ~streamPipe.ended
    /\ LET buf == streamPipe.modifiedStream
           yielded == IF streamPipe.isCryptedStream THEN <<DecryptBlock(buf.lo, buf.hi)>> ELSE <<>>
       IN  streamPipe' = Yield([streamPipe EXCEPT !.ended = TRUE], yielded)
    /\ UNCHANGED StreamOthers

StreamInit ==
    /\ InitWith(<<>>, 0)
    /\ ExtIdle({"streamPipe"})
    /\ \E isCryptedStream \in BOOLEAN, content \in StreamContents :
          streamPipe = [isCryptedStream |-> isCryptedStream, content |-> content, total |-> 0,
                        chunks |-> 0, ended |-> FALSE, modifiedStream |-> [lo |-> 0, hi |-> 0],
                        decrypted |-> <<>>, isStart |-> TRUE, depadded |-> <<>>]
StreamNext ==
    \/ \E len \in ChunkLens : StreamChunk(len)
    \/ StreamEnd
SpecStream == StreamInit /\ [][StreamNext]_vars

\* C29: for an encrypted body the decrypter's output is the body in
\* super-blocks of 6144 bytes from offset 0, whatever the chunks of the
\* source were: every yielded chunk but the last holds 6144 bytes, the
\* yielded bytes are as many as the body's, and the bytes that went through
\* the cipher are the first 2048 of every super-block that holds at least
\* 2048 bytes.
DecrypterIgnoresChunking ==
    (streamPipe.isCryptedStream /\ streamPipe.ended) =>
        LET out == streamPipe.decrypted
            n == Len(out)
        IN  /\ n = (streamPipe.total \div SuperBlock) + 1
            /\ \A k \in 1..n :
                  /\ out[k].lo = (k - 1) * SuperBlock
                  /\ out[k].hi = IF k < n THEN k * SuperBlock ELSE streamPipe.total
                  /\ out[k].cbc = IF out[k].hi - out[k].lo >= BlockLen
                                      THEN <<out[k].lo, out[k].lo + BlockLen>> ELSE <<>>

\* C29 witness: a body of two super-blocks and a rest shorter than 2048
\* bytes came in chunks that are no super-blocks
ShortRestPassedThrough ==
    /\ streamPipe.isCryptedStream
    /\ streamPipe.ended
    /\ streamPipe.chunks = 4
    /\ Len(streamPipe.decrypted) = 3
    /\ streamPipe.decrypted[3].hi - streamPipe.decrypted[3].lo = 1
    /\ streamPipe.decrypted[3].cbc = <<>>

\* C30: the depadder yields one chunk per chunk it receives; it drops the
\* leading zero bytes of the first chunk when that chunk begins with a zero
\* byte and does not carry "ftyp" at bytes 4..8, and yields every other
\* chunk as it received it.
DepadderStripsFirstChunkOnly ==
    /\ Len(streamPipe.depadded) = Len(streamPipe.decrypted)
    /\ \A k \in DOMAIN streamPipe.depadded :
          LET chunk == streamPipe.decrypted[k]
              zeros == LeadingZeros(streamPipe.content, chunk)
              ftyp == streamPipe.content.ftyp /\ chunk.lo = 0 /\ chunk.hi >= 8
          IN  streamPipe.depadded[k] =
                IF k = 1 /\ zeros > 0 /\ ~ftyp THEN [chunk EXCEPT !.lo = chunk.lo + zeros]
                ELSE chunk

\* C30 witness: the first chunk lost its zero bytes, and a later chunk that
\* begins with zero bytes was yielded whole
LaterZerosKept ==
    /\ Len(streamPipe.depadded) >= 2
    /\ streamPipe.depadded[1].lo > 0
    /\ LeadingZeros(streamPipe.content, streamPipe.decrypted[2]) > 0
    /\ streamPipe.depadded[2] = streamPipe.decrypted[2]

(***************************************************************************)
(* syncLibrary as a whole: what a call has done when it returns            *)
(***************************************************************************)
\* the errors entries that stand for an artist: not found, or check failed
ArtistLevel(errs) == SelectSeq(errs, LAMBDA e : e.kind \in {"not_found", "check"})

\* C31: when syncLibrary has returned no task that processArtistsBatch
\* started is still running, and the counters, the download results and
\* the errors are the ones the returned SyncResult was built from.
ReturnsAfterEveryTaskSettled ==
    (mainPc = "returned") =>
        /\ Unresolved = {}
        /\ result[1].checkedArtists = checkedArtists
        /\ result[1].skippedArtists = skippedArtists
        /\ result[1].newReleases = newReleasesCount
        /\ result[1].downloadedTracks + result[1].failedTracks = Len(allDownloadResults)
        /\ result[1].errors = errors

\* C32: in the returned SyncResult the checked artists, the skipped artists
\* and the artist-level errors add up to totalArtists.
EveryArtistAccountedOnce ==
    (result # None) =>
        result[1].checkedArtists + result[1].skippedArtists
            + Len(ArtistLevel(result[1].errors)) = result[1].totalArtists

\* C37: no step of a dry-run call changes an artist record of the sync
\* state, creates one, or writes a row of the sync_state table.
DryRunKeepsSyncState ==
    [][(opts.dryRun /\ mainPc \in {"race", "all"} /\ stateCache # None /\ stateCache' # None)
           => /\ stateCache'[1].artists = stateCache[1].artists
              /\ syncStateTable' = syncStateTable]_vars

\* C38: no two tasks of a call are past the skip test (discography being
\* fetched, releases being downloaded) for one catalog id.
OneFetchPerCatalogId ==
    \A t, u \in DOMAIN tasks :
        (/\ tasks[t].pc \in {"disco", "album", "track"}
         /\ tasks[u].pc \in {"disco", "album", "track"}
         /\ tasks[t].id = tasks[u].id) => t = u

\* C33: a step in which an artist's task ends without a successful check
\* (not found, check failed, skipped) leaves every artist record of the
\* sync state and the sync_state table as they were.
FailedCheckKeepsSyncState ==
    [][\A t \in DOMAIN tasks :
          (/\ tasks[t].pc \in {"search", "disco"}
           /\ tasks'[t].pc = "done"
           /\ checkedArtists' = checkedArtists)
              => /\ stateCache' = stateCache
                 /\ syncStateTable' = syncStateTable]_vars

\* C33 witness: the check of an artist that has a record failed in a later
\* call of the process
FailedRecheckOfKnownArtist ==
    /\ runNo = 2
    /\ mainPc \in {"race", "all"}
    /\ checkedArtists = 0
    /\ Len(errors) = 1 /\ errors[1].kind = "check"
    /\ HasArtist(state, 1)

\* C34: a call with fullSync skips no artist; when the lookup of an artist
\* has found its catalog id, the artist is skipped exactly when fullSync is
\* not set and shouldSkipArtist holds for the id, and the skipping step ends
\* the task without a discography fetch, a folder or a download.
SkipExactlyWhenRecentlyChecked ==
    /\ [](opts.fullSync => skippedArtists = 0)
    /\ [][\A t \in DOMAIN tasks :
            (/\ tasks[t].pc = "search"
             /\ tasks'[t].pc \in {"done", "disco"}
             /\ errors' = errors)
                => LET skip == /\ ~opts.fullSync
                               /\ shouldSkipArtist(state, CatalogId(library[t]),
                                                   opts.checkIntervalHours, clock)
                   IN  IF skip
                       THEN /\ skippedArtists' = skippedArtists + 1
                            /\ tasks'[t].pc = "done"
                            /\ folders' = folders
                            /\ files' = files
                            /\ allDownloadResults' = allDownloadResults
                       ELSE /\ skippedArtists' = skippedArtists
                            /\ tasks'[t].pc = "disco"]_vars

\* C34 witness: a full-sync call fetches the discography of an artist that
\* was checked less than the interval ago
FullSyncChecksRecentArtist ==
    /\ opts.fullSync
    /\ runNo = 2
    /\ tasks[1].pc = "disco"
    /\ shouldSkipArtist(state, 1, opts.checkIntervalHours, clock)

\* PairSpec: one call with concurrency 2 over a library of two artists
\* that both have a release to download
PairLibrary == <<1, 3>>
PairOptions ==
    [concurrency : {2}, checkIntervalHours : {IntervalHours},
     fullSync : BOOLEAN, dryRun : BOOLEAN, specificArtist : {NoName}]
PairInit == InitWith(PairLibrary, 1) /\ ExtIdle({})
PairNext ==
    \/ \E o \in PairOptions, loggedIn \in BOOLEAN : syncLibraryStart(o, loggedIn)
    \/ CallStep
    \/ ProcessExit
PairSpec == PairInit /\ [][PairNext]_vars

\* C35: while a track of an album is being downloaded, the results of all
\* earlier tracks of that album are recorded and no later track has been
\* started: the task is at track number (recorded results + 1).
TracksOneAtATime ==
    \A t \in DOMAIN tasks :
        tasks[t].pc = "track" =>
            /\ tasks[t].trk = Len(tasks[t].res) + 1
            /\ tasks[t].trk <= NbTracks(tasks[t].rels[tasks[t].rel])

\* C35 witness: the second track of one artist's album and a track of
\* another artist's album are in flight together
AlbumsInterleave ==
    \E t, u \in DOMAIN tasks :
        /\ tasks[t].pc = "track" /\ tasks[t].trk = 2
        /\ tasks[u].pc = "track"
        /\ tasks[t].id # tasks[u].id

\* SharedSpec: one call with concurrency 2 over a library of two artists
\* whose discographies hold the same compilation
SharedLibrary == <<8, 9>>
SharedInit == InitWith(SharedLibrary, 1) /\ ExtIdle({})
SharedNext ==
    \/ \E o \in PairOptions, loggedIn \in BOOLEAN : syncLibraryStart(o, loggedIn)
    \/ CallStep
    \/ ProcessExit
SharedSpec == SharedInit /\ [][SharedNext]_vars

\* C39: no two tasks of a call are downloading into one release folder at
\* the same time.
OneTaskPerReleaseFolder ==
    \A t, u \in DOMAIN tasks :
        (/\ tasks[t].pc \in {"album", "track"}
         /\ tasks[u].pc \in {"album", "track"}
         /\ ReleaseFolder(library[t], tasks[t].rels[tasks[t].rel])
                = ReleaseFolder(library[u], tasks[u].rels[tasks[u].rel])) => t = u

(***************************************************************************)
(* SpecNormalize: normalizeArtistName (scanner.ts) applied to a name and   *)
(* then to the key it gave                                                 *)
(***************************************************************************)
MaxNameLen == 4       \* tokens of a name

NameTokens == {"Artist", "artist", Blank, "!"}
NormNames == UNION {[1..n -> NameTokens] : n \in 0..MaxNameLen}

NormOthers == <<procVars, runVars, storeVars, logVars, dlVars,
                gw, mediaCall, tabsCall, rootDirs, resolverCall, scanCall, streamPipe>>

NormalizeCall ==
    /\ normCall.pc = "start"
    /\ LET key == normalizeArtistName(normCall.name)
       IN  normCall' = [normCall EXCEPT !.pc = "done", !.key = key,
                                        !.again = normalizeArtistName(key)]
    /\ UNCHANGED NormOthers

NormInit ==
    /\ InitWith(<<>>, 0)
    /\ ExtIdle({"normCall"})
    /\ \E name \in NormNames :
          normCall = [name |-> name, pc |-> "start", key |-> <<>>, again |-> <<>>]
NormNext == NormalizeCall
SpecNormalize == NormInit /\ [][NormNext]_vars

\* C40: the key of a key is the key itself, a key neither begins nor ends
\* with a blank, and the name "Artist !" gets the key of "Artist".
NormalizeIdempotentTrimmed ==
    (normCall.pc = "done") =>
        /\ normCall.again = normCall.key
        /\ normCall.key # <<>> =>
              (normCall.key[1] # Blank /\ normCall.key[Len(normCall.key)] # Blank)
        /\ normCall.name = <<"Artist", Blank, "!">> =>
              normCall.key = normalizeArtistName(<<"Artist">>)

====
